---- MODULE Spec2Model ----
(***************************************************************************)
(* A model of clemp: the staging / pre-flight / commit phases of           *)
(* run_setup (src/src/lib.rs), the functions it calls, and the top-level   *)
(* invocation (src/src/main.rs).                                           *)
(*                                                                         *)
(* File systems are trees of nodes.  A node is a record [k, c, ch]:        *)
(*   k  = "none" | "file" | "dir"                                          *)
(*   c  = the content of a file (a sequence of characters)                 *)
(*   ch = the children of a directory, a function from names to nodes      *)
(* The working directory is one such directory node (cwd); the scratch     *)
(* tree (clone_dir, ./claude-template) is kept in the variable tree and is *)
(* not a child of cwd: the properties speak of the working directory      *)
(* "outside the scratch tree".                                             *)
(***************************************************************************)
EXTENDS Integers, Sequences, FiniteSets, TLC

VARIABLES
    cli,        \* the parsed command line (struct Cli)
    tree,       \* the scratch tree: the contents of clone_dir
    cwd,        \* the working directory, without the scratch tree
    cwd0,       \* history: the working directory when the run began
    pc,         \* the position of run_setup / main
    loc,        \* the local variables of run_setup
    stdin,      \* the line read by confirm (<<>> until it is read)
    result,     \* the Result of run_setup: ok, err, msg, step
    log,        \* history: the file-system effects on cwd, in order
    ret         \* the value returned by the function under test

vars == <<cli, tree, cwd, cwd0, pc, loc, stdin, result, log, ret>>

(***************************************************************************)
(* Bounds of the model.                                                    *)
(***************************************************************************)
\* how many top-level entries the working directory holds before the run
MaxExisting == 2

(***************************************************************************)
(* Generic helpers.                                                        *)
(***************************************************************************)
Range(s) == {s[i] : i \in DOMAIN s}

RECURSIVE Perms(_)
\* every enumeration order of a finite set, as sequences
Perms(S) ==
    IF S = {} THEN {<<>>}
    ELSE UNION {{<<x>> \o p : p \in Perms(S \ {x})} : x \in S}

RECURSIVE SeqOf(_)
\* one fixed enumeration of a finite set
SeqOf(S) ==
    IF S = {} THEN <<>>
    ELSE LET x == CHOOSE y \in S : TRUE IN <<x>> \o SeqOf(S \ {x})

\* the enumeration orders of the set names that a reader keeping only the
\* names in observed can tell apart
Orders(names, observed) ==
    {p \o SeqOf(names \ observed) : p \in Perms(names \cap observed)}

RECURSIVE FilterSeq(_, _)
\* the subsequence of s whose elements belong to the set keep
FilterSeq(s, keep) ==
    IF s = <<>> THEN <<>>
    ELSE (IF Head(s) \in keep THEN <<Head(s)>> ELSE <<>>) \o FilterSeq(Tail(s), keep)

(***************************************************************************)
(* File-system nodes (std::fs as the code uses it).                        *)
(***************************************************************************)
EmptyCh == [n \in {} |-> n]
NoneN == [k |-> "none", c |-> <<>>, ch |-> EmptyCh]
File(c) == [k |-> "file", c |-> c, ch |-> EmptyCh]
Dir(ch) == [k |-> "dir", c |-> <<>>, ch |-> ch]
EmptyDir == Dir(EmptyCh)

\* Path::exists / Path::is_dir on a node
exists(n) == n.k # "none"
is_dir(n) == n.k = "dir"
is_file(n) == n.k = "file"

\* the entry called name of directory d (NoneN when there is none)
Child(d, name) ==
    IF d.k = "dir" /\ name \in DOMAIN d.ch THEN d.ch[name] ELSE NoneN

\* fs::read_dir: the names of the entries of d
read_dir(d) == IF d.k = "dir" THEN DOMAIN d.ch ELSE {}

\* directory d with entry name set to node
Put(d, name, node) ==
    Dir([x \in (DOMAIN d.ch) \cup {name} |-> IF x = name THEN node ELSE d.ch[x]])

\* directory d without entry name (fs::remove_file / fs::remove_dir_all)
Del(d, name) == Dir([x \in (DOMAIN d.ch) \ {name} |-> d.ch[x]])

\* fs::create_dir_all(dest): fails when dest is a file, creates it when absent
create_dir_all(dest) ==
    IF dest.k = "file" THEN [ok |-> FALSE, node |-> dest]
    ELSE IF dest.k = "none" THEN [ok |-> TRUE, node |-> EmptyDir]
    ELSE [ok |-> TRUE, node |-> dest]

\* fs::copy(src, dest) of a file: overwrites a file, fails on a directory
fs_copy(src, dest) ==
    IF dest.k = "dir" THEN [ok |-> FALSE, node |-> dest]
    ELSE [ok |-> TRUE, node |-> File(src.c)]

RECURSIVE copy_dir_recursive(_, _)
RECURSIVE CopyEntries(_, _, _)
\* the loop shared by copy_dir_recursive, copy_files and copy_conditional_dir:
\* copy the entries of directory src named in order (a sequence) into
\* directory node d; stops at the first error and keeps what was written
\* (at names the entry that failed).
CopyEntries(src, order, d) ==
    IF order = <<>> THEN [ok |-> TRUE, node |-> d, at |-> ""]
    ELSE LET name == Head(order)
             s == src.ch[name]
             t == Child(d, name)
             r == IF is_dir(s) THEN copy_dir_recursive(s, t) ELSE fs_copy(s, t)
             d1 == IF exists(r.node) THEN Put(d, name, r.node) ELSE d
         IN IF r.ok THEN CopyEntries(src, Tail(order), d1)
            ELSE [ok |-> FALSE, node |-> d1, at |-> name]

\* copy_dir_recursive(src, dest): dest is the node now at the destination
\* path; the result holds the node there afterwards.  Entries below the top
\* level are visited in one fixed order.
copy_dir_recursive(src, dest) ==
    LET c == create_dir_all(dest)
    IN IF ~c.ok THEN [ok |-> FALSE, node |-> c.node, at |-> ""]
       ELSE CopyEntries(src, SeqOf(read_dir(src)), c.node)

\* the node at a path (a sequence of names) below node root
RECURSIVE At(_, _)
At(root, path) ==
    IF path = <<>> THEN root ELSE At(Child(root, Head(path)), Tail(path))

\* root with the node at path replaced by node; the directories on the way
\* exist already or are created (fs::write after fs::create_dir_all)
RECURSIVE PutAt(_, _, _)
PutAt(root, path, node) ==
    IF path = <<>> THEN node
    ELSE LET d == IF is_dir(root) THEN root ELSE EmptyDir
         IN Put(d, Head(path), PutAt(Child(d, Head(path)), Tail(path), node))

(***************************************************************************)
(* Text.  The content of a file is a sequence of characters, each a        *)
(* one-character string; an opaque document (a template, a JSON text) is   *)
(* a sequence of one element naming it.                                    *)
(***************************************************************************)
NL == "\n"
Whitespace == {" ", "\t", "\r", "\n"}

\* char::to_lowercase on the letters the model uses
LowerChar(ch) ==
    CASE ch = "Y" -> "y" [] ch = "E" -> "e" [] ch = "S" -> "s"
      [] ch = "N" -> "n" [] ch = "O" -> "o" [] ch = "T" -> "t"
      [] ch = "P" -> "p" [] ch = "Z" -> "z" [] OTHER -> ch

\* str::to_lowercase on a sequence of characters
to_lowercase(s) == [i \in DOMAIN s |-> LowerChar(s[i])]

RECURSIVE TrimStart(_)
TrimStart(s) ==
    IF s # <<>> /\ Head(s) \in Whitespace THEN TrimStart(Tail(s)) ELSE s

RECURSIVE TrimEnd(_)
TrimEnd(s) ==
    IF s # <<>> /\ s[Len(s)] \in Whitespace THEN TrimEnd(SubSeq(s, 1, Len(s) - 1)) ELSE s

\* str::trim
trim(s) == TrimEnd(TrimStart(s))

\* str::ends_with('\n')
ends_with_nl(s) == s # <<>> /\ s[Len(s)] = NL

RECURSIVE SplitLines(_, _)
\* str::lines: the lines of s without their "\n" (and without a "\r" before
\* it); a last line needs no terminator, and "" has no line.  cur is the
\* line being read.
SplitLines(s, cur) ==
    IF s = <<>> THEN (IF cur = <<>> THEN <<>> ELSE <<cur>>)
    ELSE IF Head(s) = NL
         THEN LET l == IF cur # <<>> /\ cur[Len(cur)] = "\r"
                       THEN SubSeq(cur, 1, Len(cur) - 1) ELSE cur
              IN <<l>> \o SplitLines(Tail(s), <<>>)
         ELSE SplitLines(Tail(s), Append(cur, Head(s)))

lines(s) == SplitLines(s, <<>>)

RECURSIVE Concat(_)
\* the concatenation of a sequence of sequences
Concat(ss) == IF ss = <<>> THEN <<>> ELSE Head(ss) \o Concat(Tail(ss))

(***************************************************************************)
(* Results.  A fallible function returns a record with ok, and err (the    *)
(* words of the error: a sequence of strings) when ok is FALSE.            *)
(***************************************************************************)
Ok(v) == [ok |-> TRUE, v |-> v, err |-> <<>>]
Err(msg) == [ok |-> FALSE, v |-> <<>>, err |-> msg]

(***************************************************************************)
(* Language handling.                                                      *)
(***************************************************************************)
\* str::to_lowercase on the language tokens the model uses
LowerName(s) ==
    CASE s = "TS" -> "ts" [] s = "Ts" -> "ts" [] s = "TypeScript" -> "typescript"
      [] s = "PY" -> "py" [] s = "Zig" -> "zig" [] s = "ZIG" -> "zig"
      [] s = "TYPESCRIPT" -> "typescript" [] s = "JS" -> "js"
      [] s = "JavaScript" -> "javascript" [] s = "RS" -> "rs" [] s = "Rust" -> "rust"
      [] s = "Python" -> "python" [] s = "SWIFT" -> "swift" [] s = "Swift" -> "swift"
      [] s = "CS" -> "cs" [] s = "CSharp" -> "csharp" [] s = "C#" -> "c#"
      [] s = "CPP" -> "cpp" [] s = "CPlusPlus" -> "cplusplus" [] s = "C++" -> "c++"
      [] s = "HTML" -> "html" [] s = "Svelte" -> "svelte" [] s = "GO" -> "go"
      [] s = "GoLang" -> "golang" [] s = "Java" -> "java" [] s = "RB" -> "rb"
      [] s = "Ruby" -> "ruby" [] s = "Kotlin" -> "kotlin" [] s = "TypeScripT" -> "typescript"
      [] OTHER -> s

\* normalize_language: Some(canonical) for an alias of the table, else None
normalize_language(input) ==
    LET l == LowerName(input)
    IN CASE l \in {"ts", "typescript"} -> <<"typescript">>
         [] l \in {"js", "javascript"} -> <<"javascript">>
         [] l \in {"rs", "rust"} -> <<"rust">>
         [] l \in {"py", "python"} -> <<"python">>
         [] l = "swift" -> <<"swift">>
         [] l \in {"cs", "csharp", "c#"} -> <<"csharp">>
         [] l \in {"cpp", "cplusplus", "c++"} -> <<"cplusplus">>
         [] l = "html" -> <<"html">>
         [] l = "svelte" -> <<"svelte">>
         [] l \in {"go", "golang"} -> <<"go">>
         [] l = "java" -> <<"java">>
         [] l \in {"rb", "ruby"} -> <<"ruby">>
         [] OTHER -> <<>>

\* the canonical identifier with the token itself, not lowercased, as the
\* fallback
canonical_of_verbatim(input) ==
    LET n == normalize_language(input)
    IN IF n # <<>> THEN n[1] ELSE input

\* the canonical identifier: normalize_language(..).unwrap_or_else(lowercase)
canonical_of(input) ==
    LET n == normalize_language(input)
    IN IF n # <<>> THEN n[1] ELSE LowerName(input)

CONDITIONAL_DIRS == <<"commands", "skills", "copied", "mcp">>

\* resolve_language looking at the conditional directories before the rules
\* file
resolve_language_conditional_first(input, clone_dir) ==
    LET canonical == canonical_of(input)
        rules_file == At(clone_dir, <<"claude-md", "lang-rules", canonical \o ".md">>)
        has_conditional ==
            \E i \in DOMAIN CONDITIONAL_DIRS :
                is_dir(At(clone_dir, <<CONDITIONAL_DIRS[i], canonical>>))
    IN IF has_conditional THEN [state |-> "ConditionalOnly", canonical |-> canonical]
       ELSE IF exists(rules_file) THEN [state |-> "HasRulesFile", canonical |-> canonical]
       ELSE [state |-> "NoMatch", canonical |-> ""]

\* resolve_language(input, clone_dir)
resolve_language(input, clone_dir) ==
    LET canonical == canonical_of(input)
        rules_file == At(clone_dir, <<"claude-md", "lang-rules", canonical \o ".md">>)
        has_conditional ==
            \E i \in DOMAIN CONDITIONAL_DIRS :
                is_dir(At(clone_dir, <<CONDITIONAL_DIRS[i], canonical>>))
    IN IF exists(rules_file) THEN [state |-> "HasRulesFile", canonical |-> canonical]
       ELSE IF has_conditional THEN [state |-> "ConditionalOnly", canonical |-> canonical]
       ELSE [state |-> "NoMatch", canonical |-> ""]

RECURSIVE resolve_all_languages_skipping(_, _)
\* resolve_all_languages leaving out the tokens that resolve to NoMatch
resolve_all_languages_skipping(inputs, clone_dir) ==
    IF inputs = <<>> THEN Ok(<<>>)
    ELSE LET r == resolve_language(Head(inputs), clone_dir)
             rest == resolve_all_languages_skipping(Tail(inputs), clone_dir)
         IN IF r.state = "NoMatch" THEN rest ELSE Ok(<<r.canonical>> \o rest.v)

RECURSIVE resolve_all_languages(_, _)
\* resolve_all_languages(inputs, clone_dir): the canonical identifiers in
\* input order, or the error of the first NoMatch
resolve_all_languages(inputs, clone_dir) ==
    IF inputs = <<>> THEN Ok(<<>>)
    ELSE LET r == resolve_language(Head(inputs), clone_dir)
         IN IF r.state = "NoMatch"
            THEN Err(<<"Unknown language", Head(inputs), canonical_of(Head(inputs))>>)
            ELSE LET rest == resolve_all_languages(Tail(inputs), clone_dir)
                 IN IF rest.ok THEN Ok(<<r.canonical>> \o rest.v) ELSE rest

(***************************************************************************)
(* JSON maps (serde_json::Map<String, Value>): a sequence of <<key, value>>*)
(* pairs with distinct keys, in iteration order.  Iteration order is taken *)
(* to be insertion order (serde_json's preserve_order, as the spec's data  *)
(* model says); no formula below depends on it.                            *)
(***************************************************************************)
EmptyMap == <<>>

MapKeys(m) == [i \in DOMAIN m |-> m[i][1]]

MapHas(m, key) == \E i \in DOMAIN m : m[i][1] = key

MapGet(m, key) == m[CHOOSE i \in DOMAIN m : m[i][1] = key][2]

\* entry(key).or_insert(value) in place of insert: a key the map holds keeps
\* its value
MapInsertIfAbsent(m, key, value) ==
    IF MapHas(m, key) THEN m ELSE Append(m, <<key, value>>)

\* Map::insert: replaces the value of a key it holds, else appends the pair
MapInsert(m, key, value) ==
    IF MapHas(m, key)
    THEN [i \in DOMAIN m |-> IF m[i][1] = key THEN <<key, value>> ELSE m[i]]
    ELSE Append(m, <<key, value>>)

RECURSIVE MapExtend(_, _)
\* Map::extend(other): inserts the pairs of other in its iteration order
MapExtend(m, other) ==
    IF other = <<>> THEN m
    ELSE MapExtend(MapInsert(m, Head(other)[1], Head(other)[2]), Tail(other))

(***************************************************************************)
(* File names: extension, stem and order.                                  *)
(***************************************************************************)
\* the stems of the .json files of the model
JsonStems == {"a", "b", "p", "t", "maps", "ctx", "sound", "lint", "context7"}

\* Path::extension() == "json"
has_json_ext(name) == \E st \in JsonStems : name = st \o ".json"

\* Path::file_stem of a name with the json extension
file_stem(name) == CHOOSE st \in JsonStems : name = st \o ".json"

\* the file names of the model in ascending (byte-wise) order, which is the
\* order of OsString that sort_by_key(file_name) uses
SortedFileNames ==
    <<"a.json", "b.json", "context7.json", "ctx.json", "general.md", "lang-rules.md",
      "lang_rules.md", "lint.json", "maps.json", "mcp.md", "notes", "notes.txt",
      "p.json", "sound.json", "t.json", "tips.md.jinja">>

NameRank(name) == CHOOSE i \in DOMAIN SortedFileNames : SortedFileNames[i] = name

RECURSIVE InsertByName(_, _)
\* name inserted into the sorted sequence s, after the names not above it
InsertByName(s, name) ==
    IF s = <<>> THEN <<name>>
    ELSE IF NameRank(Head(s)) <= NameRank(name)
         THEN <<Head(s)>> \o InsertByName(Tail(s), name)
         ELSE <<name>> \o s

\* no sort: the entries stay in the order fs::read_dir yielded them
keep_enumerated_order(s) == s

RECURSIVE sort_by_file_name(_)
\* entries.sort_by_key(|e| e.file_name()): a stable sort of a sequence
sort_by_file_name(s) ==
    IF s = <<>> THEN <<>>
    ELSE InsertByName(sort_by_file_name(SubSeq(s, 1, Len(s) - 1)), s[Len(s)])

(***************************************************************************)
(* MCP assembly.                                                           *)
(***************************************************************************)
\* serde_json::from_str::<Map<String, Value>> on the documents of the model:
\* the text of a document names its pairs; any other text does not parse
from_str_map(content) ==
    CASE content = <<"{}">> -> Ok(EmptyMap)
      [] content = <<"{s1:A}">> -> Ok(<< <<"s1", "A">> >>)
      [] content = <<"{s1:B,s2:B}">> -> Ok(<< <<"s1", "B">>, <<"s2", "B">> >>)
      [] content = <<"{s1:C}">> -> Ok(<< <<"s1", "C">> >>)
      [] content = <<"{s2:C}">> -> Ok(<< <<"s2", "C">> >>)
      [] content = <<"{s1:T}">> -> Ok(<< <<"s1", "T">> >>)
      [] content = <<"{s3:T}">> -> Ok(<< <<"s3", "T">> >>)
      [] content = <<"{s1:P}">> -> Ok(<< <<"s1", "P">> >>)
      [] content = <<"{s1:M}">> -> Ok(<< <<"s1", "M">> >>)
      [] content = <<"{s4:M}">> -> Ok(<< <<"s4", "M">> >>)
      [] content = <<"{s2:X}">> -> Ok(<< <<"s2", "X">> >>)
      [] content = <<"{context7:c7}">> -> Ok(<< <<"context7", "c7">> >>)
      [] OTHER -> Err(<<"Failed to parse">>)

RECURSIVE MergeJsonFiles(_, _, _)
\* the loop of read_json_dir over the sorted entries
MergeJsonFiles(dir, names, merged) ==
    IF names = <<>> THEN Ok(merged)
    ELSE LET f == Child(dir, Head(names))
             obj == from_str_map(f.c)
         IN IF ~is_file(f) THEN Err(<<"read", Head(names)>>)
            ELSE IF ~obj.ok THEN Err(<<"Failed to parse", Head(names)>>)
            ELSE MergeJsonFiles(dir, Tail(names), MapExtend(merged, obj.v))

\* read_json_dir without the sort: the files merged as fs::read_dir yields them
read_json_dir_unsorted(dir, enumeration) ==
    IF ~is_dir(dir) THEN Ok(EmptyMap)
    ELSE LET entries == FilterSeq(enumeration, {n \in read_dir(dir) : has_json_ext(n)})
         IN MergeJsonFiles(dir, entries, EmptyMap)

\* read_json_dir(dir): enumeration is the order in which fs::read_dir yields
\* the entries of dir
read_json_dir(dir, enumeration) ==
    IF ~is_dir(dir) THEN Ok(EmptyMap)
    ELSE LET entries == FilterSeq(enumeration, {n \in read_dir(dir) : has_json_ext(n)})
         IN MergeJsonFiles(dir, sort_by_file_name(entries), EmptyMap)

RECURSIVE McpLanguages(_, _, _, _)
\* step 2 of assemble_mcp_json: the language directories, in caller order
McpLanguages(languages, mcp_dir, enum, servers) ==
    IF languages = <<>> THEN Ok(servers)
    ELSE LET r == read_json_dir(Child(mcp_dir, Head(languages)), enum[Head(languages)])
         IN IF ~r.ok THEN r
            ELSE McpLanguages(Tail(languages), mcp_dir, enum, MapExtend(servers, r.v))

RECURSIVE McpNamed(_, _, _)
\* step 3 of assemble_mcp_json: the named files, in caller order
McpNamed(named_mcps, mcp_dir, servers) ==
    IF named_mcps = <<>> THEN Ok(servers)
    ELSE LET name == Head(named_mcps)
             f == Child(mcp_dir, name \o ".json")
             obj == from_str_map(f.c)
         IN IF ~exists(f)
            THEN Err(<<"MCP not found", name>>)
            ELSE IF ~is_file(f) THEN Err(<<"read", name>>)
            ELSE IF ~obj.ok THEN Err(<<"Failed to parse", name>>)
            ELSE McpNamed(Tail(named_mcps), mcp_dir, MapExtend(servers, obj.v))

\* assemble_mcp_json without the bail of the missing mcp/ directory: the
\* requested names are ignored when the template has no mcp/
assemble_mcp_json_lenient(languages, named_mcps, clone_dir, enum) ==
    LET mcp_dir == Child(clone_dir, "mcp")
    IN IF ~exists(mcp_dir)
       THEN Ok([mcpServers |-> EmptyMap, names |-> <<>>])
       ELSE LET d == read_json_dir(Child(mcp_dir, "default"), enum["default"])
                l == IF d.ok THEN McpLanguages(languages, mcp_dir, enum, d.v) ELSE d
                n == IF l.ok THEN McpNamed(named_mcps, mcp_dir, l.v) ELSE l
            IN IF ~n.ok THEN n
               ELSE Ok([mcpServers |-> n.v, names |-> MapKeys(n.v)])

\* assemble_mcp_json(languages, named_mcps, clone_dir): the mcpServers map
\* and the list of its names.  enum gives, for each subdirectory of mcp/,
\* the order in which fs::read_dir yields its entries.
assemble_mcp_json(languages, named_mcps, clone_dir, enum) ==
    LET mcp_dir == Child(clone_dir, "mcp")
    IN IF ~exists(mcp_dir)
       THEN IF named_mcps # <<>>
            THEN Err(<<"--mcp specified but no mcp/ directory in template">>)
            ELSE Ok([mcpServers |-> EmptyMap, names |-> <<>>])
       ELSE LET d == read_json_dir(Child(mcp_dir, "default"), enum["default"])
                l == IF d.ok THEN McpLanguages(languages, mcp_dir, enum, d.v) ELSE d
                n == IF l.ok THEN McpNamed(named_mcps, mcp_dir, l.v) ELSE l
            IN IF ~n.ok THEN n
               ELSE Ok([mcpServers |-> n.v, names |-> MapKeys(n.v)])

RECURSIVE Enumerations(_, _)
\* the orders in which fs::read_dir may yield the entries of the
\* subdirectories of d named in subs (a missing one has no entry): the set
\* of functions from subs to one enumeration each
Enumerations(d, subs) ==
    IF subs = {} THEN {EmptyCh}
    ELSE LET x == CHOOSE y \in subs : TRUE
         IN {[y \in (DOMAIN e) \cup {x} |-> IF y = x THEN p ELSE e[y]] :
                e \in Enumerations(d, subs \ {x}), p \in Perms(read_dir(Child(d, x)))}

(***************************************************************************)
(* Rules building and template rendering.                                  *)
(***************************************************************************)
RECURSIVE RuleSections(_, _, _)
\* the loop of build_language_rules / build_mcp_rules: one section per name
\* that has a rules file, in list order; suffix is "-rules" or "-mcp-rules"
RuleSections(names, rules_dir, suffix) ==
    IF names = <<>> THEN Ok(<<>>)
    ELSE LET name == Head(names)
             rules_file == Child(rules_dir, name \o ".md")
             rest == RuleSections(Tail(names), rules_dir, suffix)
             section == <<"<" \o name \o suffix \o ">", NL>> \o trim(rules_file.c)
                        \o <<NL, "</" \o name \o suffix \o ">">>
         IN IF ~exists(rules_file) THEN rest
            ELSE IF ~is_file(rules_file) THEN Err(<<"Failed to read", name \o ".md">>)
            ELSE IF ~rest.ok THEN rest
            ELSE Ok(<<section>> \o rest.v)

RECURSIVE JoinSectionsCompact(_)
\* sections.join("\n"): no blank line between the sections
JoinSectionsCompact(sections) ==
    IF sections = <<>> THEN <<>>
    ELSE IF Len(sections) = 1 THEN sections[1]
    ELSE sections[1] \o <<NL>> \o JoinSectionsCompact(Tail(sections))

RECURSIVE JoinSections(_)
\* sections.join("\n\n")
JoinSections(sections) ==
    IF sections = <<>> THEN <<>>
    ELSE IF Len(sections) = 1 THEN sections[1]
    ELSE sections[1] \o <<NL, NL>> \o JoinSections(Tail(sections))

\* build_language_rules(languages, claude_md_dir)
build_language_rules(languages, claude_md_dir) ==
    LET r == RuleSections(languages, Child(claude_md_dir, "lang-rules"), "-rules")
    IN IF r.ok THEN Ok(JoinSections(r.v)) ELSE r

\* build_mcp_rules(active_mcps, claude_md_dir)
build_mcp_rules(active_mcps, claude_md_dir) ==
    LET r == RuleSections(active_mcps, Child(claude_md_dir, "mcp-rules"), "-mcp-rules")
    IN IF r.ok THEN Ok(JoinSections(r.v)) ELSE r

\* Environment::render_str on the templates of the model: the template
\* <<"{{ lang_rules }}{{ mcp_rules }}">> prints the two rule texts, any
\* other text is a syntax error
render_str(template, lang_rules, mcp_rules) ==
    IF template = <<"{{ lang_rules }}{{ mcp_rules }}">>
    THEN Ok(lang_rules \o mcp_rules)
    ELSE Err(<<"Failed to render CLAUDE.md.jinja">>)

\* render_claude_md(languages, active_mcp_names, clone_dir), for a template
\* tree without claude-md/misc
render_claude_md(languages, active_mcp_names, clone_dir) ==
    LET template == Child(clone_dir, "CLAUDE.md.jinja")
        claude_md_dir == Child(clone_dir, "claude-md")
        lang_rules == build_language_rules(languages, claude_md_dir)
        mcp_rules == build_mcp_rules(active_mcp_names, claude_md_dir)
    IN IF ~is_file(template) THEN Err(<<"Failed to read", "CLAUDE.md.jinja">>)
       ELSE IF ~lang_rules.ok THEN lang_rules
       ELSE IF ~mcp_rules.ok THEN mcp_rules
       ELSE render_str(template.c, lang_rules.v, mcp_rules.v)

(***************************************************************************)
(* Clarg integration.                                                      *)
(***************************************************************************)
\* setup_clarg(name, clone_dir): the PreToolUse entry, and clone_dir with
\* the YAML copied to .claude/clarg-<name>.yaml
setup_clarg(name, clone_dir) ==
    LET yaml == At(clone_dir, <<"clarg", name \o ".yaml">>)
        dest_name == "clarg-" \o name \o ".yaml"
        claude_dir == create_dir_all(Child(clone_dir, ".claude"))
        copied == fs_copy(yaml, Child(claude_dir.node, dest_name))
    IN IF ~exists(yaml) THEN Err(<<"Clarg config not found", name>>) @@ [tree |-> clone_dir]
       ELSE IF ~claude_dir.ok THEN Err(<<"create_dir_all", ".claude">>) @@ [tree |-> clone_dir]
       ELSE IF ~is_file(yaml) \/ ~copied.ok
            THEN Err(<<"copy", dest_name>>) @@ [tree |-> Put(clone_dir, ".claude", claude_dir.node)]
       ELSE Ok("clarg .claude/" \o dest_name)
            @@ [tree |-> Put(clone_dir, ".claude", Put(claude_dir.node, dest_name, copied.node))]

(***************************************************************************)
(* Settings / hooks.                                                       *)
(***************************************************************************)
\* a JSON value that is an object (a map) / an array / anything else
JObject(m) == [t |-> "object", o |-> m, a |-> <<>>]
JArray(a) == [t |-> "array", o |-> <<>>, a |-> a]
JOther == [t |-> "other", o |-> <<>>, a |-> <<>>]

\* serde_json::from_str::<Value> on the hook and settings documents of the
\* model; any other text does not parse
from_str_value(content) ==
    CASE content = <<"{}">> -> Ok(JObject(EmptyMap))
      [] content = <<"[]">> -> Ok(JArray(<<>>))
      [] content = <<"{Notification:[beep]}">> ->
            Ok(JObject(<< <<"Notification", JArray(<<"beep">>)>> >>))
      [] content = <<"{Notification:[notify-lint],PreToolUse:[lint]}">> ->
            Ok(JObject(<< <<"Notification", JArray(<<"notify-lint">>)>>,
                          <<"PreToolUse", JArray(<<"lint">>)>> >>))
      [] content = <<"{Notification:1}">> -> Ok(JObject(<< <<"Notification", JOther>> >>))
      [] content = <<"{Notification:[a1,a2]}">> ->
            Ok(JObject(<< <<"Notification", JArray(<<"a1", "a2">>)>> >>))
      [] content = <<"{PreToolUse:[b1],Notification:[b2]}">> ->
            Ok(JObject(<< <<"PreToolUse", JArray(<<"b1">>)>>,
                          <<"Notification", JArray(<<"b2">>)>> >>))
      [] content = <<"{permissions:{allow:[]},hooks:{Stop:[old]},enabledMcpjsonServers:[old]}">> ->
            Ok(JObject(<< <<"permissions", JOther>>,
                          <<"hooks", JObject(<< <<"Stop", JArray(<<"old">>)>> >>)>>,
                          <<"enabledMcpjsonServers", JArray(<<"old">>)>> >>))
      [] content = <<"{permissions:{allow:[]}}">> ->
            Ok(JObject(<< <<"permissions", JOther>> >>))
      [] content = <<"{hooks:{Stop:[old]},enabledMcpjsonServers:[old]}">> ->
            Ok(JObject(<< <<"hooks", JObject(<< <<"Stop", JArray(<<"old">>)>> >>)>>,
                          <<"enabledMcpjsonServers", JArray(<<"old">>)>> >>))
      [] OTHER -> Err(<<"Failed to parse">>)

RECURSIVE MergeHookEntriesOverwriting(_, _)
\* the loop of merge_hook_file with insert in place of extend: the entries
\* of a later file replace those dest holds for the event type
MergeHookEntriesOverwriting(hook_obj, dest) ==
    IF hook_obj = <<>> THEN Ok(dest)
    ELSE LET hook_type == Head(hook_obj)[1]
             entries == Head(hook_obj)[2]
         IN IF entries.t # "array" THEN Err(<<"is not an array", hook_type>>)
            ELSE MergeHookEntriesOverwriting(Tail(hook_obj),
                                             MapInsert(dest, hook_type, JArray(entries.a)))

RECURSIVE MergeHookEntries(_, _)
\* the loop of merge_hook_file over the event types of one hook file: the
\* entries of each are appended to the array dest holds for that event type
MergeHookEntries(hook_obj, dest) ==
    IF hook_obj = <<>> THEN Ok(dest)
    ELSE LET hook_type == Head(hook_obj)[1]
             entries == Head(hook_obj)[2]
             old == IF MapHas(dest, hook_type) THEN MapGet(dest, hook_type).a ELSE <<>>
         IN IF entries.t # "array" THEN Err(<<"is not an array", hook_type>>)
            ELSE MergeHookEntries(Tail(hook_obj),
                                  MapInsert(dest, hook_type, JArray(old \o entries.a)))

\* merge_hook_file(path, dest): file is the node at path
merge_hook_file(file, dest) ==
    LET hook_json == from_str_value(file.c)
    IN IF ~is_file(file) THEN Err(<<"read">>)
       ELSE IF ~hook_json.ok THEN hook_json
       ELSE IF hook_json.v.t # "object" THEN Err(<<"is not an object">>)
       ELSE MergeHookEntries(hook_json.v.o, dest)

RECURSIVE MergeHookFiles(_, _, _)
\* the loop of build_settings over the sorted entries of hooks/default
MergeHookFiles(dir, names, merged) ==
    IF names = <<>> THEN Ok(merged)
    ELSE LET r == merge_hook_file(Child(dir, Head(names)), merged)
         IN IF ~r.ok THEN r ELSE MergeHookFiles(dir, Tail(names), r.v)

RECURSIVE MergeNamedHooksSkipping(_, _, _)
\* the loop over the named hooks with continue in place of bail! for a
\* name that has no file
MergeNamedHooksSkipping(named_hooks, hooks_dir, merged) ==
    IF named_hooks = <<>> THEN Ok(merged)
    ELSE LET name == Head(named_hooks)
             f == Child(hooks_dir, name \o ".json")
             r == merge_hook_file(f, merged)
         IN IF ~exists(f) THEN MergeNamedHooksSkipping(Tail(named_hooks), hooks_dir, merged)
            ELSE IF ~r.ok THEN r
            ELSE MergeNamedHooksSkipping(Tail(named_hooks), hooks_dir, r.v)

RECURSIVE MergeNamedHooks(_, _, _)
\* the loop of build_settings over the named hooks, in caller order
MergeNamedHooks(named_hooks, hooks_dir, merged) ==
    IF named_hooks = <<>> THEN Ok(merged)
    ELSE LET name == Head(named_hooks)
             f == Child(hooks_dir, name \o ".json")
             r == merge_hook_file(f, merged)
         IN IF ~exists(f) THEN Err(<<"Hook not found", name>>)
            ELSE IF ~r.ok THEN r
            ELSE MergeNamedHooks(Tail(named_hooks), hooks_dir, r.v)

RECURSIVE PushClarg(_, _)
\* the loop of build_settings over the clarg entries: each is pushed onto
\* the PreToolUse array
PushClarg(clarg_entries, merged) ==
    IF clarg_entries = <<>> THEN merged
    ELSE LET old == IF MapHas(merged, "PreToolUse")
                    THEN MapGet(merged, "PreToolUse").a ELSE <<>>
         IN PushClarg(Tail(clarg_entries),
                      MapInsert(merged, "PreToolUse", JArray(Append(old, Head(clarg_entries)))))

\* the text serde_json::to_string_pretty gives a generated document: the
\* model keeps the document itself in loc and writes a text naming it
GeneratedText(name) == <<"generated " \o name>>

\* build_settings writing the document back to base_path, the file it read
build_settings_over_base(named_hooks, clarg_entries, active_mcp_names, clone_dir, enumeration) ==
    LET base == Child(clone_dir, "settings.local.json")
        hooks_dir == Child(clone_dir, "hooks")
        default_hooks_dir == Child(hooks_dir, "default")
        settings == IF exists(base)
                    THEN (IF is_file(base) THEN from_str_value(base.c) ELSE Err(<<"read">>))
                    ELSE Ok(JObject(EmptyMap))
        entries == FilterSeq(enumeration,
                             {n \in read_dir(default_hooks_dir) : has_json_ext(n)})
        defaults == IF is_dir(default_hooks_dir)
                    THEN MergeHookFiles(default_hooks_dir, sort_by_file_name(entries), EmptyMap)
                    ELSE Ok(EmptyMap)
        named == IF defaults.ok THEN MergeNamedHooks(named_hooks, hooks_dir, defaults.v)
                 ELSE defaults
        doc == MapInsert(MapInsert(settings.v.o, "hooks",
                                   JObject(PushClarg(clarg_entries, named.v))),
                         "enabledMcpjsonServers", JArray(active_mcp_names))
        fail(e) == e @@ [tree |-> clone_dir]
    IN IF ~settings.ok THEN fail(Err(<<"Failed to parse settings.local.json">>))
       ELSE IF settings.v.t # "object" THEN fail(Err(<<"settings.local.json is not an object">>))
       ELSE IF ~named.ok THEN fail(named)
       ELSE IF is_dir(base) THEN fail(Err(<<"write", "settings.local.json">>))
       ELSE Ok(doc) @@ [tree |-> Put(clone_dir, "settings.local.json",
                                     File(GeneratedText("settings.local.json")))]

\* build_settings(named_hooks, clarg_entries, active_mcp_names, clone_dir):
\* the document written (v) and clone_dir after the write (tree);
\* enumeration is the order in which fs::read_dir yields hooks/default
build_settings(named_hooks, clarg_entries, active_mcp_names, clone_dir, enumeration) ==
    LET base == Child(clone_dir, "settings.local.json")
        hooks_dir == Child(clone_dir, "hooks")
        default_hooks_dir == Child(hooks_dir, "default")
        settings == IF exists(base)
                    THEN (IF is_file(base) THEN from_str_value(base.c) ELSE Err(<<"read">>))
                    ELSE Ok(JObject(EmptyMap))
        entries == FilterSeq(enumeration,
                             {n \in read_dir(default_hooks_dir) : has_json_ext(n)})
        defaults == IF is_dir(default_hooks_dir)
                    THEN MergeHookFiles(default_hooks_dir, sort_by_file_name(entries), EmptyMap)
                    ELSE Ok(EmptyMap)
        named == IF defaults.ok THEN MergeNamedHooks(named_hooks, hooks_dir, defaults.v)
                 ELSE defaults
        merged_hooks == PushClarg(clarg_entries, named.v)
        doc == MapInsert(MapInsert(settings.v.o, "hooks", JObject(merged_hooks)),
                         "enabledMcpjsonServers", JArray(active_mcp_names))
        claude_dir == create_dir_all(Child(clone_dir, ".claude"))
        target == Child(claude_dir.node, "settings.local.json")
        fail(e) == e @@ [tree |-> clone_dir]
    IN IF ~settings.ok THEN fail(Err(<<"Failed to parse settings.local.json">>))
       ELSE IF settings.v.t # "object" THEN fail(Err(<<"settings.local.json is not an object">>))
       ELSE IF ~named.ok THEN fail(named)
       ELSE IF ~claude_dir.ok THEN fail(Err(<<"create_dir_all", ".claude">>))
       ELSE IF is_dir(target)
            THEN Err(<<"write", "settings.local.json">>)
                 @@ [tree |-> Put(clone_dir, ".claude", claude_dir.node)]
       ELSE Ok(doc)
            @@ [tree |-> Put(clone_dir, ".claude",
                             Put(claude_dir.node, "settings.local.json",
                                 File(GeneratedText("settings.local.json"))))]

(***************************************************************************)
(* Git / filesystem.                                                       *)
(***************************************************************************)
CLONE_DIR == "claude-template"

\* "\n# Claude related\n"
ClaudeRelated ==
    <<NL, "#", " ", "C", "l", "a", "u", "d", "e", " ", "r", "e", "l", "a", "t", "e", "d", NL>>

RECURSIVE NewEntriesUnfiltered(_, _)
\* the filter of update_gitignore without the look at the existing lines
NewEntriesUnfiltered(addition_lines, existing_lines) ==
    IF addition_lines = <<>> THEN <<>>
    ELSE LET line == trim(Head(addition_lines))
         IN (IF line # <<>> THEN <<line>> ELSE <<>>)
            \o NewEntriesUnfiltered(Tail(addition_lines), existing_lines)

RECURSIVE NewEntries(_, _)
\* the filter of update_gitignore over the trimmed lines of the additions
NewEntries(addition_lines, existing_lines) ==
    IF addition_lines = <<>> THEN <<>>
    ELSE LET line == trim(Head(addition_lines))
         IN (IF line # <<>> /\ line \notin existing_lines THEN <<line>> ELSE <<>>)
            \o NewEntries(Tail(addition_lines), existing_lines)

RECURSIVE EntryLines(_)
\* each entry followed by "\n"
EntryLines(entries) ==
    IF entries = <<>> THEN <<>>
    ELSE Head(entries) \o <<NL>> \o EntryLines(Tail(entries))

\* update_gitignore writing the separator and the entries in place of the
\* existing content
update_gitignore_rewriting(dir, clone_dir) ==
    LET gitignore == Child(dir, ".gitignore")
        additions == Child(clone_dir, "gitignore-additions")
        existing == IF exists(gitignore) THEN gitignore.c ELSE <<>>
        existing_lines == {trim(l) : l \in Range(lines(existing))}
        new_entries == NewEntries(lines(additions.c), existing_lines)
        content == ClaudeRelated \o EntryLines(new_entries)
    IN IF ~is_file(additions)
       THEN [ok |-> FALSE, node |-> dir, at |-> "",
             err |-> <<"Failed to read", CLONE_DIR \o "/gitignore-additions">>]
       ELSE IF is_dir(gitignore)
       THEN [ok |-> FALSE, node |-> dir, at |-> ".gitignore", err |-> <<"read", ".gitignore">>]
       ELSE IF new_entries = <<>>
       THEN [ok |-> TRUE, node |-> dir, at |-> "", err |-> <<>>]
       ELSE [ok |-> TRUE, node |-> Put(dir, ".gitignore", File(content)), at |-> "",
             err |-> <<>>]

\* update_gitignore(): dir is the working directory, clone_dir the node at
\* ./claude-template; the result holds the working directory afterwards and
\* at, the working-directory entry the failing operation was about
update_gitignore(dir, clone_dir) ==
    LET gitignore == Child(dir, ".gitignore")
        additions == Child(clone_dir, "gitignore-additions")
        existing == IF exists(gitignore) THEN gitignore.c ELSE <<>>
        existing_lines == {trim(l) : l \in Range(lines(existing))}
        new_entries == NewEntries(lines(additions.c), existing_lines)
        content == existing \o (IF ends_with_nl(existing) THEN <<>> ELSE <<NL>>)
                   \o ClaudeRelated \o EntryLines(new_entries)
    IN IF ~is_file(additions)
       THEN [ok |-> FALSE, node |-> dir, at |-> "",
             err |-> <<"Failed to read", CLONE_DIR \o "/gitignore-additions">>]
       ELSE IF is_dir(gitignore)
       THEN [ok |-> FALSE, node |-> dir, at |-> ".gitignore", err |-> <<"read", ".gitignore">>]
       ELSE IF new_entries = <<>>
       THEN [ok |-> TRUE, node |-> dir, at |-> "", err |-> <<>>]
       ELSE [ok |-> TRUE, node |-> Put(dir, ".gitignore", File(content)), at |-> "",
             err |-> <<>>]

RECURSIVE HashSetOf(_)
\* collect::<HashSet<_>>(): the set that inserting the elements one by one
\* leaves
HashSetOf(s) == IF s = <<>> THEN {} ELSE {Head(s)} \cup HashSetOf(Tail(s))

\* Path::file_name of a path, a non-empty sequence of names
file_name(path) == path[Len(path)]

\* the destination paths dest_dir.join(name) of the sources, as names
DestNames(sources) == [i \in DOMAIN sources |-> file_name(sources[i])]

\* collect_conflicts without the HashSet: one destination per source
collect_conflicts_per_source(sources, dest_dir, order) ==
    FilterSeq(DestNames(sources), {n \in Range(DestNames(sources)) : exists(Child(dest_dir, n))})

\* collect_conflicts(sources, dest_dir): order is the order in which the
\* HashSet of destinations is iterated
collect_conflicts(sources, dest_dir, order) ==
    FilterSeq(order, {n \in HashSetOf(DestNames(sources)) : exists(Child(dest_dir, n))})

\* confirm taking every answer that begins with y as a yes
confirm_by_first_letter(input) ==
    LET answer == to_lowercase(trim(input))
    IN answer # <<>> /\ answer[1] = "y"

\* confirm(message): input is the line read from stdin
confirm(input) ==
    LET answer == to_lowercase(trim(input))
    IN answer = <<"y">> \/ answer = <<"y", "e", "s">>

COPY_FILES_EXCLUDE ==
    {".git", "README.md", ".gitignore", "gitignore-additions", "CLAUDE.md.jinja",
     "claude-md", "clarg", "commands", "skills", "copied", "hooks", "mcp",
     "settings.local.json"}

\* collect_copy_files_sources(clone_dir): enumeration is the order in which
\* fs::read_dir yields the entries of clone_dir; the paths are relative to it
collect_copy_files_sources(clone_dir, enumeration) ==
    LET kept == FilterSeq(enumeration, read_dir(clone_dir) \ COPY_FILES_EXCLUDE)
    IN [i \in DOMAIN kept |-> <<kept[i]>>]

RECURSIVE LanguageDirs(_, _)
\* source_dir/<lang> for each language whose directory exists, in caller order
LanguageDirs(source_dir, languages) ==
    IF languages = <<>> THEN <<>>
    ELSE (IF is_dir(Child(source_dir, Head(languages))) THEN <<Head(languages)>> ELSE <<>>)
         \o LanguageDirs(source_dir, Tail(languages))

\* the contributing subdirectories with default/ after the language
\* directories
ContributingDirsDefaultLast(source_dir, languages) ==
    LanguageDirs(source_dir, languages)
    \o (IF is_dir(Child(source_dir, "default")) THEN <<"default">> ELSE <<>>)

\* the contributing subdirectories of a conditional directory: default/
\* first, then the language directories
ContributingDirs(source_dir, languages) ==
    (IF is_dir(Child(source_dir, "default")) THEN <<"default">> ELSE <<>>)
    \o LanguageDirs(source_dir, languages)

RECURSIVE EntriesOf(_, _, _, _)
\* flat_map over the contributing subdirectories: the paths of their entries
EntriesOf(prefix, source_dir, dirs, enum) ==
    IF dirs = <<>> THEN <<>>
    ELSE LET names == enum[Head(dirs)]
         IN [i \in DOMAIN names |-> prefix \o <<Head(dirs), names[i]>>]
            \o EntriesOf(prefix, source_dir, Tail(dirs), enum)

\* collect_conditional_dir_sources looking at default/ only
collect_default_dir_sources(prefix, source_dir, languages, enum) ==
    IF ~exists(source_dir) THEN <<>>
    ELSE EntriesOf(prefix, source_dir, ContributingDirs(source_dir, <<>>), enum)

\* collect_conditional_dir_sources(source_dir, languages): prefix is the
\* path of source_dir; enum gives the order of fs::read_dir per subdirectory
collect_conditional_dir_sources(prefix, source_dir, languages, enum) ==
    IF ~exists(source_dir) THEN <<>>
    ELSE EntriesOf(prefix, source_dir, ContributingDirs(source_dir, languages), enum)

\* copy_files without the COPY_FILES_EXCLUDE filter
copy_files_unfiltered(clone_dir, dir, enumeration) ==
    CopyEntries(clone_dir, enumeration, dir)

\* copy_files(clone_dir): dir is the working directory
copy_files(clone_dir, dir, enumeration) ==
    LET sources == collect_copy_files_sources(clone_dir, enumeration)
    IN CopyEntries(clone_dir, DestNames(sources), dir)

RECURSIVE CopyContributing(_, _, _, _)
\* the outer loop of copy_conditional_dir over the contributing
\* subdirectories
CopyContributing(source_dir, dirs, enum, d) ==
    IF dirs = <<>> THEN [ok |-> TRUE, node |-> d, at |-> ""]
    ELSE LET r == CopyEntries(Child(source_dir, Head(dirs)), enum[Head(dirs)], d)
         IN IF ~r.ok THEN r ELSE CopyContributing(source_dir, Tail(dirs), enum, r.node)

\* copy_conditional_dir(source_dir, languages, dest_dir): dest is the node
\* at dest_dir, the result holds the node there afterwards
copy_conditional_dir(source_dir, languages, dest, enum) ==
    LET source_dirs == ContributingDirs(source_dir, languages)
        made == create_dir_all(dest)
    IN IF ~exists(source_dir) \/ source_dirs = <<>>
       THEN [ok |-> TRUE, node |-> dest, at |-> ""]
       ELSE IF ~made.ok THEN [ok |-> FALSE, node |-> dest, at |-> ""]
       ELSE CopyContributing(source_dir, source_dirs, enum, made.node)

(***************************************************************************)
(* The inputs of the model: template trees, command lines, working         *)
(* directories and answers.                                                *)
(***************************************************************************)
UserFile == File(<<"user">>)
UserDir == Dir("keep" :> File(<<"user">>))

\* what the working directory may hold before the run: name, node
UserEntries ==
    { <<"CLAUDE.md", UserFile>>, <<".claude", UserDir>>, <<".editorconfig", UserFile>>,
      <<".gitignore", File(<<"n">>)>>, <<".gitignore", UserDir>>,
      <<"notes.txt", UserFile>> }

\* the working directories with at most MaxExisting entries
WorkDirs ==
    LET names == {e[1] : e \in UserEntries}
    IN {Dir(f) : f \in UNION {
            {g \in [S -> {e[2] : e \in UserEntries}] :
                \A n \in S : <<n, g[n]>> \in UserEntries} :
            S \in {T \in SUBSET names : Cardinality(T) <= MaxExisting}}}

\* the fixed part of the template tree (as the full scaffold of the tests)
BaseTree ==
    Dir(   "CLAUDE.md.jinja" :> File(<<"{{ lang_rules }}{{ mcp_rules }}">>)
        @@ "README.md" :> File(<<"readme">>)
        @@ "claude-md" :> Dir("lang-rules" :> Dir("typescript.md" :> File(<<"t", "s", NL>>)))
        @@ "settings.local.json" :> File(<<"{permissions:{allow:[]}}">>)
        @@ "hooks" :> Dir("default" :> Dir("sound.json" :> File(<<"{Notification:[beep]}">>)))
        @@ "mcp" :> Dir(   "default" :> Dir("context7.json" :> File(<<"{context7:c7}">>))
                        @@ "typescript" :> Dir("t.json" :> File(<<"{s3:T}">>))
                        @@ "maps.json" :> File(<<"{s1:M}">>))
        @@ "commands" :> Dir("default" :> Dir("commit.md" :> File(<<"commit">>)))
        @@ "clarg" :> Dir("strict.yaml" :> File(<<"strict">>)) )

\* the copied/ trees of the model (NoneN: the template has no copied/)
CopiedDefaults ==
    { NoneN,
      Dir(".editorconfig" :> File(<<"root">>)),
      Dir(".gitignore" :> File(<<"t", NL>>)),
      Dir("CLAUDE.md" :> Dir("x" :> File(<<"x">>))) }

CopiedLanguage ==
    { NoneN,
      Dir(".editorconfig" :> File(<<"ts root">>)),
      Dir("tsconfig.json" :> File(<<"strict">>)) }

\* a directory node from optional entries: those that are NoneN are left out
DirOfPresent(f) == Dir([n \in {m \in DOMAIN f : exists(f[m])} |-> f[n]])

CopiedTrees ==
    {NoneN} \cup {DirOfPresent("default" :> d @@ "typescript" :> l) :
                     d \in CopiedDefaults, l \in CopiedLanguage}

\* gitignore-additions: ".c/\n"
Additions == File(<<".", "c", "/", NL>>)

\* the template trees of the model
TemplateTrees ==
    { LET more == DirOfPresent("gitignore-additions" :> a @@ "copied" :> c)
      IN Dir(more.ch @@ BaseTree.ch) :
      a \in {NoneN, Additions}, c \in CopiedTrees }

\* Option<String>: <<>> is None, <<s>> is Some(s)
None == <<>>
Some(x) == <<x>>

\* the command lines of the model
CommandLines ==
    {[languages |-> l, hooks |-> <<>>, mcp |-> <<>>, clarg |-> None, force |-> f] :
        l \in {<<>>, <<"TS">>, <<"Zig">>}, f \in BOOLEAN}
    \cup {[languages |-> <<>>, hooks |-> <<>>, mcp |-> <<"ghost">>, clarg |-> None,
           force |-> FALSE],
          [languages |-> <<"TS">>, hooks |-> <<>>, mcp |-> <<"maps">>, clarg |-> None,
           force |-> FALSE],
          [languages |-> <<>>, hooks |-> <<"ghost">>, mcp |-> <<>>, clarg |-> None,
           force |-> FALSE],
          [languages |-> <<>>, hooks |-> <<>>, mcp |-> <<>>, clarg |-> Some("strict"),
           force |-> FALSE],
          [languages |-> <<>>, hooks |-> <<>>, mcp |-> <<>>, clarg |-> Some("ghost"),
           force |-> FALSE]}

\* the lines confirm may read from stdin
Answers ==
    { <<"y", NL>>, <<" ", "Y", "E", "S", NL>>, <<"n", NL>>, <<NL>>,
      <<"y", "e", "s", "s", NL>> }

(***************************************************************************)
(* run_setup (src/src/lib.rs), one action per step.                        *)
(***************************************************************************)
Running == [status |-> "running", step |-> "", err |-> <<>>, at |-> ""]

NoLocals ==
    [resolved_languages |-> <<>>, active_mcps |-> <<>>, mcp_json |-> EmptyMap,
     clarg_entries |-> <<>>, settings |-> EmptyMap, tested |-> {}, conflicts |-> <<>>]

Init ==
    /\ cli \in CommandLines
    /\ tree \in TemplateTrees
    /\ cwd \in WorkDirs
    /\ cwd0 = cwd
    /\ pc = "resolve"
    /\ loc = NoLocals
    /\ stdin = <<>>
    /\ result = Running
    /\ log = <<>>
    /\ ret = <<>>

\* run_setup returns Err from step
Fail(step, err, at) ==
    /\ result' = [status |-> "err", step |-> step, err |-> err, at |-> at]
    /\ pc' = "failed"

\* fs::write(clone_dir.join(name), content): fails when a directory is there
write_file(dir, name, content) ==
    IF is_dir(Child(dir, name)) THEN [ok |-> FALSE, node |-> dir]
    ELSE [ok |-> TRUE, node |-> Put(dir, name, File(content))]

\* resolve_all_languages(&cli.languages, clone_dir)?
ResolveLanguages ==
    /\ pc = "resolve"
    /\ LET r == resolve_all_languages(cli.languages, tree)
       IN IF r.ok
          THEN /\ loc' = [loc EXCEPT !.resolved_languages = r.v]
               /\ pc' = "mcp"
               /\ UNCHANGED result
          ELSE Fail("resolve", r.err, "") /\ UNCHANGED loc
    /\ UNCHANGED <<cli, tree, cwd, cwd0, stdin, log, ret>>

\* assemble_mcp_json(..)? and fs::write(clone_dir.join(".mcp.json"), ..)?
\* the MCP step leaving .mcp.json out when no server is selected
AssembleMcpOmittingEmpty ==
    /\ pc = "mcp"
    /\ \E enum \in Enumerations(Child(tree, "mcp"),
                                {"default"} \cup Range(loc.resolved_languages)) :
        LET r == assemble_mcp_json(loc.resolved_languages, cli.mcp, tree, enum)
            w == IF r.ok /\ r.v.names = <<>> THEN [ok |-> TRUE, node |-> tree]
                 ELSE write_file(tree, ".mcp.json", GeneratedText(".mcp.json"))
        IN IF ~r.ok THEN Fail("mcp", r.err, "") /\ UNCHANGED <<loc, tree>>
           ELSE IF ~w.ok THEN Fail("mcp", <<"write", ".mcp.json">>, "") /\ UNCHANGED <<loc, tree>>
           ELSE /\ loc' = [loc EXCEPT !.mcp_json = r.v.mcpServers, !.active_mcps = r.v.names]
                /\ tree' = w.node
                /\ pc' = "render"
                /\ UNCHANGED result
    /\ UNCHANGED <<cli, cwd, cwd0, stdin, log, ret>>

\* let (mcp_json, active_mcps) = assemble_mcp_json(..)?; fs::write(.mcp.json)?
AssembleMcp ==
    /\ pc = "mcp"
    /\ \E enum \in Enumerations(Child(tree, "mcp"),
                                {"default"} \cup Range(loc.resolved_languages)) :
        LET r == assemble_mcp_json(loc.resolved_languages, cli.mcp, tree, enum)
            w == write_file(tree, ".mcp.json", GeneratedText(".mcp.json"))
        IN IF ~r.ok THEN Fail("mcp", r.err, "") /\ UNCHANGED <<loc, tree>>
           ELSE IF ~w.ok THEN Fail("mcp", <<"write", ".mcp.json">>, "") /\ UNCHANGED <<loc, tree>>
           ELSE /\ loc' = [loc EXCEPT !.mcp_json = r.v.mcpServers, !.active_mcps = r.v.names]
                /\ tree' = w.node
                /\ pc' = "render"
                /\ UNCHANGED result
    /\ UNCHANGED <<cli, cwd, cwd0, stdin, log, ret>>

\* the rendering step writing CLAUDE.md to the working directory
RenderClaudeMdInPlace ==
    /\ pc = "render"
    /\ LET r == render_claude_md(loc.resolved_languages, loc.active_mcps, tree)
           w == write_file(cwd, "CLAUDE.md", r.v)
       IN IF ~r.ok THEN Fail("render", r.err, "") /\ UNCHANGED cwd
          ELSE IF ~w.ok THEN Fail("render", <<"write", "CLAUDE.md">>, "") /\ UNCHANGED cwd
          ELSE cwd' = w.node /\ pc' = "clarg" /\ UNCHANGED result
    /\ UNCHANGED <<cli, tree, cwd0, loc, stdin, log, ret>>

\* render_claude_md(..)? and fs::write(clone_dir.join("CLAUDE.md"), ..)?
RenderClaudeMd ==
    /\ pc = "render"
    /\ LET r == render_claude_md(loc.resolved_languages, loc.active_mcps, tree)
           w == write_file(tree, "CLAUDE.md", r.v)
       IN IF ~r.ok THEN Fail("render", r.err, "") /\ UNCHANGED tree
          ELSE IF ~w.ok THEN Fail("render", <<"write", "CLAUDE.md">>, "") /\ UNCHANGED tree
          ELSE tree' = w.node /\ pc' = "clarg" /\ UNCHANGED result
    /\ UNCHANGED <<cli, cwd, cwd0, loc, stdin, log, ret>>

\* the clarg profile: --clarg, else "default" when clarg/default.yaml exists
clarg_name ==
    IF cli.clarg # None THEN cli.clarg
    ELSE IF exists(At(tree, <<"clarg", "default.yaml">>)) THEN Some("default")
    ELSE None

\* vec![setup_clarg(name, clone_dir)?], or vec![] without a profile
SetupClarg ==
    /\ pc = "clarg"
    /\ IF clarg_name = None
       THEN pc' = "settings" /\ UNCHANGED <<loc, tree, result>>
       ELSE LET r == setup_clarg(clarg_name[1], tree)
            IN IF ~r.ok THEN Fail("clarg", r.err, "") /\ tree' = r.tree /\ UNCHANGED loc
               ELSE /\ loc' = [loc EXCEPT !.clarg_entries = <<r.v>>]
                    /\ tree' = r.tree
                    /\ pc' = "settings"
                    /\ UNCHANGED result
    /\ UNCHANGED <<cli, cwd, cwd0, stdin, log, ret>>

\* the settings step enabling only the servers named on the command line
BuildSettingsNamedOnly ==
    /\ pc = "settings"
    /\ \E enumeration \in Perms(read_dir(At(tree, <<"hooks", "default">>))) :
        LET r == build_settings(cli.hooks, loc.clarg_entries, cli.mcp, tree, enumeration)
        IN IF ~r.ok THEN Fail("settings", r.err, "") /\ tree' = r.tree /\ UNCHANGED loc
           ELSE /\ loc' = [loc EXCEPT !.settings = r.v]
                /\ tree' = r.tree
                /\ pc' = "commands"
                /\ UNCHANGED result
    /\ UNCHANGED <<cli, cwd, cwd0, stdin, log, ret>>

\* build_settings(&cli.hooks, &clarg_entries, &active_mcps, clone_dir)?
BuildSettings ==
    /\ pc = "settings"
    /\ \E enumeration \in Perms(read_dir(At(tree, <<"hooks", "default">>))) :
        LET r == build_settings(cli.hooks, loc.clarg_entries, loc.active_mcps, tree,
                                enumeration)
        IN IF ~r.ok THEN Fail("settings", r.err, "") /\ tree' = r.tree /\ UNCHANGED loc
           ELSE /\ loc' = [loc EXCEPT !.settings = r.v]
                /\ tree' = r.tree
                /\ pc' = "commands"
                /\ UNCHANGED result
    /\ UNCHANGED <<cli, cwd, cwd0, stdin, log, ret>>

\* copy_conditional_dir(clone_dir/<name>, languages, clone_dir/.claude/<name>)
\* on the scratch tree t: create_dir_all of the destination fails when
\* .claude (or the destination) is a file
StageConditional(t, name, languages, enum) ==
    LET claude == Child(t, ".claude")
        dest == IF is_file(claude) THEN claude ELSE Child(claude, name)
        r == copy_conditional_dir(Child(t, name), languages, dest, enum)
    IN IF ~r.ok THEN [ok |-> FALSE, node |-> IF is_file(claude) THEN t
                                             ELSE PutAt(t, <<".claude", name>>, r.node)]
       ELSE IF r.node = dest THEN [ok |-> TRUE, node |-> t]
       ELSE [ok |-> TRUE, node |-> PutAt(t, <<".claude", name>>, r.node)]

\* copy_conditional_dir(commands, .., .claude/commands)?
AssembleCommands ==
    /\ pc = "commands"
    /\ \E enum \in Enumerations(Child(tree, "commands"),
                                {"default"} \cup Range(loc.resolved_languages)) :
        LET r == StageConditional(tree, "commands", loc.resolved_languages, enum)
        IN /\ tree' = r.node
           /\ IF r.ok THEN pc' = "skills" /\ UNCHANGED result
              ELSE Fail("commands", <<"copy">>, "")
    /\ UNCHANGED <<cli, cwd, cwd0, loc, stdin, log, ret>>

\* copy_conditional_dir(skills, .., .claude/skills)?
AssembleSkills ==
    /\ pc = "skills"
    /\ \E enum \in Enumerations(Child(tree, "skills"),
                                {"default"} \cup Range(loc.resolved_languages)) :
        LET r == StageConditional(tree, "skills", loc.resolved_languages, enum)
        IN /\ tree' = r.node
           /\ IF r.ok THEN pc' = "preflight" /\ UNCHANGED result
              ELSE Fail("skills", <<"copy">>, "")
    /\ UNCHANGED <<cli, cwd, cwd0, loc, stdin, log, ret>>

\* the sources of the final copy: collect_copy_files_sources(clone_dir)
\* extended by collect_conditional_dir_sources(copied, languages)
all_cwd_targets(t, languages, enumeration, enum) ==
    collect_copy_files_sources(t, enumeration)
    \o collect_conditional_dir_sources(<<"copied">>, Child(t, "copied"), languages, enum)

\* the orders in which a HashSet may yield the existing destinations: every
\* order of up to MaxExisting + 1 of them; of more (a working directory that
\* a run has filled), one order and its reverse
HashSetOrders(hit) ==
    IF Cardinality(hit) <= MaxExisting + 1 THEN Perms(hit)
    ELSE {SeqOf(hit), [i \in 1..Cardinality(hit) |-> SeqOf(hit)[Cardinality(hit) + 1 - i]]}

\* the pre-flight check looking at the destinations of copied/ only
PreflightCheckCopiedOnly ==
    /\ pc = "preflight"
    /\ \E enum \in Enumerations(Child(tree, "copied"),
                                {"default"} \cup Range(loc.resolved_languages)) :
        LET targets == collect_conditional_dir_sources(<<"copied">>, Child(tree, "copied"),
                                                       loc.resolved_languages, enum)
            dests == HashSetOf(DestNames(targets))
            hit == {n \in dests : exists(Child(cwd, n))}
        IN \E first \in HashSetOrders(hit) :
            LET conflicts == collect_conflicts(targets, cwd, first \o SeqOf(dests \ hit))
            IN /\ loc' = [loc EXCEPT !.tested = dests, !.conflicts = conflicts]
               /\ IF conflicts # <<>> /\ ~cli.force
                  THEN Fail("preflight", <<"already exist">> \o conflicts, "")
                  ELSE /\ pc' = IF conflicts # <<>> THEN "confirm" ELSE "gitignore"
                       /\ UNCHANGED result
    /\ UNCHANGED <<cli, tree, cwd, cwd0, stdin, log, ret>>

\* Phase 2 of run_setup: the targets, the conflicts, and the bail without
\* --force.  The HashSet of destinations is iterated in any order; the
\* orders tried put the existing destinations first, every order of them.
PreflightCheck ==
    /\ pc = "preflight"
    /\ \E enumeration \in Orders(read_dir(tree), read_dir(tree) \ COPY_FILES_EXCLUDE) :
       \E enum \in Enumerations(Child(tree, "copied"),
                                {"default"} \cup Range(loc.resolved_languages)) :
        LET targets == all_cwd_targets(tree, loc.resolved_languages, enumeration, enum)
            dests == HashSetOf(DestNames(targets))
            hit == {n \in dests : exists(Child(cwd, n))}
        IN \E first \in HashSetOrders(hit) :
            LET conflicts == collect_conflicts(targets, cwd, first \o SeqOf(dests \ hit))
            IN /\ loc' = [loc EXCEPT !.tested = dests, !.conflicts = conflicts]
               /\ IF conflicts # <<>> /\ ~cli.force
                  THEN Fail("preflight", <<"already exist">> \o conflicts, "")
                  ELSE /\ pc' = IF conflicts # <<>> THEN "confirm" ELSE "gitignore"
                       /\ UNCHANGED result
    /\ UNCHANGED <<cli, tree, cwd, cwd0, stdin, log, ret>>

\* if !confirm("Proceed?")? { bail!("Aborted.") }
Confirm ==
    /\ pc = "confirm"
    /\ \E input \in Answers :
        /\ stdin' = input
        /\ IF confirm(input) THEN pc' = "remove" /\ UNCHANGED result
           ELSE Fail("confirm", <<"Aborted.">>, "")
    /\ UNCHANGED <<cli, tree, cwd, cwd0, loc, log, ret>>

\* the removal loop stopping after the first conflict
RemoveFirst(dir, paths) ==
    IF paths = <<>> THEN dir ELSE Del(dir, Head(paths))

RECURSIVE RemoveAll(_, _)
\* the loop over the conflicts: fs::remove_dir_all or fs::remove_file
RemoveAll(dir, paths) ==
    IF paths = <<>> THEN dir ELSE RemoveAll(Del(dir, Head(paths)), Tail(paths))

\* for path in &conflicts { remove }
RemoveConflicts ==
    /\ pc = "remove"
    /\ cwd' = RemoveAll(cwd, loc.conflicts)
    /\ log' = Append(log, "remove_conflicts")
    /\ pc' = "gitignore"
    /\ UNCHANGED <<cli, tree, cwd0, loc, stdin, result, ret>>

\* update_gitignore() with its result dropped: the run goes on after a failure
UpdateGitignoreUnchecked ==
    /\ pc = "gitignore"
    /\ cwd' = update_gitignore(cwd, tree).node
    /\ pc' = "copy_files"
    /\ log' = Append(log, "update_gitignore")
    /\ UNCHANGED <<cli, tree, cwd0, loc, stdin, result, ret>>

\* update_gitignore()?
UpdateGitignore ==
    /\ pc = "gitignore"
    /\ LET r == update_gitignore(cwd, tree)
       IN /\ cwd' = r.node
          /\ IF r.ok THEN pc' = "copy_files" /\ UNCHANGED result
             ELSE Fail("update_gitignore", r.err, r.at)
    /\ log' = Append(log, "update_gitignore")
    /\ UNCHANGED <<cli, tree, cwd0, loc, stdin, ret>>

\* copy_files(clone_dir)?
CopyFiles ==
    /\ pc = "copy_files"
    /\ \E enumeration \in Orders(read_dir(tree), read_dir(tree) \ COPY_FILES_EXCLUDE) :
        LET r == copy_files(tree, cwd, enumeration)
        IN /\ cwd' = r.node
           /\ IF r.ok THEN pc' = "copy_copied" /\ UNCHANGED result
              ELSE Fail("copy_files", <<"Failed to copy", r.at>>, r.at)
    /\ log' = Append(log, "copy_files")
    /\ UNCHANGED <<cli, tree, cwd0, loc, stdin, ret>>

\* copy_conditional_dir(clone_dir/copied, languages, ".")?
CopyCopied ==
    /\ pc = "copy_copied"
    /\ \E enum \in Enumerations(Child(tree, "copied"),
                                {"default"} \cup Range(loc.resolved_languages)) :
        LET r == copy_conditional_dir(Child(tree, "copied"), loc.resolved_languages, cwd, enum)
        IN /\ cwd' = r.node
           /\ IF r.ok THEN pc' = "done" /\ result' = [result EXCEPT !.status = "ok"]
              ELSE Fail("copy_conditional_dir", <<"Failed to copy", r.at>>, r.at)
    /\ log' = Append(log, "copy_conditional_dir")
    /\ UNCHANGED <<cli, tree, cwd0, loc, stdin, ret>>

Next ==
    \/ ResolveLanguages
    \/ AssembleMcp
    \/ RenderClaudeMd
    \/ SetupClarg
    \/ BuildSettings
    \/ AssembleCommands
    \/ AssembleSkills
    \/ PreflightCheck
    \/ Confirm
    \/ RemoveConflicts
    \/ UpdateGitignore
    \/ CopyFiles
    \/ CopyCopied

Spec == Init /\ [][Next]_vars

(***************************************************************************)
(* Properties of run_setup.                                                *)
(***************************************************************************)
StagingPcs ==
    {"resolve", "mcp", "render", "clarg", "settings", "commands", "skills", "preflight"}

CommitSteps == {"update_gitignore", "copy_files", "copy_conditional_dir"}

CommitOrder == <<"update_gitignore", "copy_files", "copy_conditional_dir">>

IsPrefix(s, t) == Len(s) <= Len(t) /\ \A i \in 1..Len(s) : s[i] = t[i]

\* the pre-flight destinations: the top-level entries of the scratch tree
\* outside the exclusion list, and the top-level entries of copied/default
\* and of copied/<lang> for the resolved languages
PreflightDestinations ==
    (read_dir(tree) \ COPY_FILES_EXCLUDE)
    \cup read_dir(At(tree, <<"copied", "default">>))
    \cup UNION {read_dir(At(tree, <<"copied", l>>)) : l \in Range(loc.resolved_languages)}

\* the pre-flight destinations that existed before the run
ConflictSet == {n \in PreflightDestinations : exists(Child(cwd0, n))}

\* the run got past staging: the conflict check has been made
Checked == pc \notin StagingPcs /\ (pc = "failed" => result.step \notin StagingPcs)

\* the answers that are y or yes after trimming, whatever the case
YesAnswers == { <<"y", NL>>, <<" ", "Y", "E", "S", NL>> }

\* C1: without --force, when a pre-flight destination already exists in the
\* working directory, run_setup fails and the working directory is as it
\* was before the call (no .gitignore created or appended to).
C1_ConflictAtomicity ==
    (pc \notin StagingPcs /\ ~cli.force /\ ConflictSet # {})
        => (pc = "failed" /\ result.status = "err" /\ cwd = cwd0)

C1_Witness ==
    /\ pc = "failed" /\ result.step = "preflight" /\ ~cli.force
    /\ is_file(Child(tree, "gitignore-additions"))
    /\ exists(Child(cwd0, ".editorconfig"))
    /\ ~exists(Child(cwd, ".gitignore"))

\* C2: every run of run_setup that returns an error, at whatever step,
\* leaves the working directory exactly as it was before the call.
C2_AllOrNothing == pc = "failed" => cwd = cwd0

\* C4: no staging step (anything before the conflict check has completed)
\* changes the working directory: the writes go to the scratch tree.
C4_StagingConfined == [][(pc \in StagingPcs) => (cwd' = cwd)]_vars

C4_Witness ==
    /\ pc = "preflight"
    /\ is_file(Child(tree, ".mcp.json")) /\ is_file(Child(tree, "CLAUDE.md"))
    /\ is_file(At(tree, <<".claude", "settings.local.json">>))
    /\ is_file(At(tree, <<".claude", "clarg-strict.yaml">>))
    /\ is_file(At(tree, <<".claude", "commands", "commit.md">>))
    /\ cwd = cwd0 /\ cwd # EmptyDir /\ ~exists(Child(cwd, "CLAUDE.md"))

\* C5: the working directory changes only in the commit steps, which start
\* only when no pre-flight destination exists in it (none did, or the
\* conflicts were confirmed and removed), run in the order update_gitignore,
\* copy_files, copy_conditional_dir, and stop at the first failure.
C5_CommitOrdering ==
    /\ cwd # cwd0 => log # <<>>
    /\ \/ IsPrefix(log, CommitOrder) /\ (log # <<>> => ConflictSet = {})
       \/ /\ log # <<>> /\ log[1] = "remove_conflicts"
          /\ IsPrefix(Tail(log), CommitOrder)
          /\ cli.force /\ ConflictSet # {} /\ stdin \in YesAnswers
    /\ pc = "gitignore" => \A n \in PreflightDestinations : ~exists(Child(cwd, n))
    /\ "copy_files" \in Range(log)
          => is_file(Child(tree, "gitignore-additions")) /\ ~is_dir(Child(cwd, ".gitignore"))
    /\ (pc = "failed" /\ result.step \in CommitSteps) => log[Len(log)] = result.step
    /\ pc = "done" => IsPrefix(CommitOrder, log) \/ IsPrefix(CommitOrder, Tail(log))

C5_Witness ==
    /\ pc = "done" /\ log = <<"remove_conflicts">> \o CommitOrder
    /\ is_file(Child(cwd, ".gitignore")) /\ is_file(Child(cwd, ".editorconfig"))

\* C6: once the conflict set is empty or cleared, no commit step fails on a
\* path that was in the working directory before the run.
C6_NoFailureFromPreexisting ==
    (pc = "failed" /\ result.step \in CommitSteps)
        => ~(/\ result.at # ""
             /\ exists(Child(cwd0, result.at))
             /\ Child(cwd, result.at) = Child(cwd0, result.at))

\* C7: with --force and conflicts, an answer other than y or yes makes
\* run_setup fail with the working directory unchanged: nothing removed,
\* no .gitignore written, nothing copied.
C7_DeclinedForce ==
    (cli.force /\ ConflictSet # {} /\ stdin # <<>> /\ stdin \notin YesAnswers)
        => (pc = "failed" /\ result.step = "confirm" /\ cwd = cwd0 /\ log = <<>>)

C7_Witness ==
    /\ pc = "failed" /\ cli.force
    /\ stdin = <<"y", "e", "s", "s", NL>>
    /\ exists(Child(cwd, "CLAUDE.md"))

\* C8: with --force, conflicts and a yes, the conflict set is removed before
\* .gitignore is updated or anything is copied, and no other entry of the
\* working directory is ever removed.
C8_ForceClearsExactly ==
    /\ (pc = "gitignore" /\ cli.force /\ ConflictSet # {})
          => /\ log = <<"remove_conflicts">>
             /\ cwd = Dir([n \in read_dir(cwd0) \ ConflictSet |-> cwd0.ch[n]])
    /\ (Checked /\ cli.force /\ ConflictSet # {} /\ stdin \in YesAnswers /\ pc # "remove")
          => (log # <<>> /\ log[1] = "remove_conflicts")
    /\ \A n \in read_dir(cwd0) \ ConflictSet : exists(Child(cwd, n))

C8_Witness ==
    /\ pc = "gitignore" /\ log = <<"remove_conflicts">>
    /\ is_dir(Child(cwd0, ".claude")) /\ ~exists(Child(cwd, ".claude"))
    /\ exists(Child(cwd, "notes.txt"))

\* C9: the conflicts collected are exactly the pre-flight destinations that
\* exist in the working directory, each once however many sources share the
\* name, and the abort message names every one of them.
C9_ConflictSet ==
    /\ Checked => /\ Range(loc.conflicts) = ConflictSet
                  /\ Len(loc.conflicts) = Cardinality(ConflictSet)
    /\ (pc = "failed" /\ result.step = "preflight")
          => ConflictSet # {} /\ ConflictSet \subseteq Range(result.err)

C9_Witness ==
    /\ pc = "failed" /\ result.step = "preflight"
    /\ is_file(At(tree, <<"copied", "default", ".editorconfig">>))
    /\ is_file(At(tree, <<"copied", "typescript", ".editorconfig">>))
    /\ loc.resolved_languages = <<"typescript">>
    /\ Len(loc.conflicts) = 2 /\ ".editorconfig" \in Range(loc.conflicts)

(***************************************************************************)
(* assemble_mcp_json on its own: template trees that differ in mcp/, every *)
(* short list of languages and of named servers.                           *)
(***************************************************************************)
MaxLangs == 2
MaxNamed == 2

\* the sequences over S of length at most n
SeqsUpTo(S, n) == UNION {[1..k -> S] : k \in 0..n}

\* the mcp/default directories of the model
McpDefaults ==
    { NoneN,
      Dir("a.json" :> File(<<"{s1:A}">>)),
      Dir("b.json" :> File(<<"{s1:B,s2:B}">>)),
      Dir("a.json" :> File(<<"{s1:A}">>) @@ "b.json" :> File(<<"{s1:B,s2:B}">>)),
      Dir("a.json" :> File(<<"{s1:A}">>) @@ "b.json" :> File(<<"{s1:B,s2:B}">>)
          @@ "notes.txt" :> File(<<"{s2:X}">>)) }

\* the template trees of the model: only mcp/ matters to assemble_mcp_json
McpTrees ==
    { Dir("mcp" :> DirOfPresent("default" :> d @@ "typescript" :> t @@ "python" :> y
                                @@ "maps.json" :> m @@ "ctx.json" :> c)) :
        d \in McpDefaults,
        t \in {NoneN, Dir("t.json" :> File(<<"{s1:T}">>)), Dir("t.json" :> File(<<"{s3:T}">>))},
        y \in {NoneN, Dir("p.json" :> File(<<"{s1:P}">>))},
        m \in {NoneN, File(<<"{s1:M}">>), File(<<"{s4:M}">>)},
        c \in {NoneN, File(<<"{s1:C}">>), File(<<"{s2:C}">>)} }
    \cup {EmptyDir}

McpInit ==
    /\ cli \in {[languages |-> l, hooks |-> <<>>, mcp |-> n, clarg |-> None, force |-> FALSE] :
                  l \in SeqsUpTo({"typescript", "python"}, MaxLangs),
                  n \in SeqsUpTo({"maps", "ctx"}, MaxNamed)}
    /\ tree \in McpTrees
    /\ cwd = EmptyDir
    /\ cwd0 = EmptyDir
    /\ pc = "call"
    /\ loc = NoLocals
    /\ stdin = <<>>
    /\ result = Running
    /\ log = <<>>
    /\ ret = <<>>

\* let (mcp_json, active_mcps) = assemble_mcp_json(languages, named_mcps, clone_dir)
McpCall ==
    /\ pc = "call"
    /\ \E enum \in Enumerations(Child(tree, "mcp"), {"default"} \cup Range(cli.languages)) :
        ret' = assemble_mcp_json(cli.languages, cli.mcp, tree, enum)
    /\ pc' = "returned"
    /\ UNCHANGED <<cli, tree, cwd, cwd0, loc, stdin, result, log>>

McpNext == McpCall

SpecMcp == McpInit /\ [][McpNext]_vars

\* the .json files of a directory of mcp/, in ascending file name order
JsonFilesAscending(sub) ==
    LET S == {n \in read_dir(At(tree, <<"mcp", sub>>)) : has_json_ext(n)}
        s == CHOOSE q \in Perms(S) :
                \A i, j \in DOMAIN q : i < j => NameRank(q[i]) < NameRank(q[j])
    IN [i \in DOMAIN s |-> <<"mcp", sub, s[i]>>]

RECURSIVE LanguageSources(_)
LanguageSources(languages) ==
    IF languages = <<>> THEN <<>>
    ELSE JsonFilesAscending(Head(languages)) \o LanguageSources(Tail(languages))

\* the sources of the servers, in the order of precedence (last wins)
McpSources ==
    JsonFilesAscending("default")
    \o LanguageSources(cli.languages)
    \o [i \in DOMAIN cli.mcp |-> <<"mcp", cli.mcp[i] \o ".json">>]

\* the servers a source defines
DefinedBy(path) == from_str_map(At(tree, path).c).v

ServerNames == UNION {Range(MapKeys(DefinedBy(McpSources[i]))) : i \in DOMAIN McpSources}

\* the definition of a server in the last source that defines it
LastDefinition(key) ==
    LET defining == {i \in DOMAIN McpSources : MapHas(DefinedBy(McpSources[i]), key)}
        last == CHOOSE i \in defining : \A j \in defining : j <= i
    IN MapGet(DefinedBy(McpSources[last]), key)

\* C10: every server of the map assemble_mcp_json returns has the definition
\* of the last source that defines it, in the order default files (ascending
\* file name), language directories (caller order), named files (caller
\* order); the servers are those of all the sources together.
C10_McpPrecedence ==
    (pc = "returned" /\ ret.ok)
        => /\ Range(MapKeys(ret.v.mcpServers)) = ServerNames
           /\ Len(ret.v.mcpServers) = Cardinality(ServerNames)
           /\ \A key \in ServerNames : MapGet(ret.v.mcpServers, key) = LastDefinition(key)

C10_Witness ==
    /\ pc = "returned" /\ ret.ok
    /\ cli.languages = <<"typescript", "python">> /\ cli.mcp = <<"ctx", "maps">>
    /\ read_dir(At(tree, <<"mcp", "default">>)) = {"a.json", "b.json", "notes.txt"}
    /\ is_file(At(tree, <<"mcp", "typescript", "t.json">>))
    /\ is_file(At(tree, <<"mcp", "python", "p.json">>))
    /\ MapGet(ret.v.mcpServers, "s1") = "M"
    /\ MapGet(ret.v.mcpServers, "s2") = "C"

(***************************************************************************)
(* The binary (src/src/main.rs): main with its own run_setup.  Its         *)
(* normalize_language, update_gitignore and copy_dir_recursive are the     *)
(* same text as the library's and are used as defined above.               *)
(***************************************************************************)
MainTemplatePlain == <<"{{ language_rules }}">>
MainTemplateSwift == <<"{% if 'swift' in languages %}swift{% endif %}{{ language_rules }}">>

\* template_has_conditional(template_content, lang), on the templates of the
\* model: only MainTemplateSwift holds the text 'swift' in languages
template_has_conditional(template_content, lang) ==
    template_content = MainTemplateSwift /\ lang = "swift"

\* resolve_language(input, rules_dir, template_content) of main.rs
main_resolve_language(input, rules_dir, template_content) ==
    LET canonical == canonical_of(input)
    IN IF exists(Child(rules_dir, canonical \o "-rules.md"))
       THEN [state |-> "HasRulesFile", canonical |-> canonical]
       ELSE IF template_has_conditional(template_content, canonical)
       THEN [state |-> "ConditionalOnly", canonical |-> canonical]
       ELSE [state |-> "NoMatch", canonical |-> canonical]

RECURSIVE MainResolved(_, _, _, _)
\* the loop of render_claude_md over the languages: the canonical names
\* whose resolution is one of states, in caller order
MainResolved(languages, rules_dir, template_content, states) ==
    IF languages = <<>> THEN <<>>
    ELSE LET r == main_resolve_language(Head(languages), rules_dir, template_content)
         IN (IF r.state \in states THEN <<r.canonical>> ELSE <<>>)
            \o MainResolved(Tail(languages), rules_dir, template_content, states)

RECURSIVE MainRuleSections(_, _)
\* the loop of build_language_rules of main.rs
MainRuleSections(languages_with_rules, rules_dir) ==
    IF languages_with_rules = <<>> THEN Ok(<<>>)
    ELSE LET canonical == Head(languages_with_rules)
             rules_file == Child(rules_dir, canonical \o "-rules.md")
             rest == MainRuleSections(Tail(languages_with_rules), rules_dir)
             section == <<"<" \o canonical \o "-rules>", NL>> \o trim(rules_file.c)
                        \o <<NL, "</" \o canonical \o "-rules>">>
         IN IF ~is_file(rules_file) THEN Err(<<"Failed to read", canonical \o "-rules.md">>)
            ELSE IF ~rest.ok THEN rest
            ELSE Ok(<<section>> \o rest.v)

\* build_language_rules(languages_with_rules, rules_dir) of main.rs
main_build_language_rules(languages_with_rules, rules_dir) ==
    LET r == MainRuleSections(languages_with_rules, rules_dir)
    IN IF r.ok THEN Ok(JoinSections(r.v)) ELSE r

\* tmpl.render(context!{languages, language_rules}) on the templates of the
\* model; any other text is a syntax error
main_render(template_content, all_languages, language_rules) ==
    IF template_content = MainTemplatePlain THEN Ok(language_rules)
    ELSE IF template_content = MainTemplateSwift
    THEN Ok((IF "swift" \in Range(all_languages) THEN <<"s", "w", "i", "f", "t">> ELSE <<>>)
            \o language_rules)
    ELSE Err(<<"Failed to add template">>)

\* render_claude_md(languages, rules_dir) of main.rs
main_render_claude_md(languages, rules_dir) ==
    LET template == Child(rules_dir, "CLAUDE-template.md")
        all_languages == MainResolved(languages, rules_dir, template.c,
                                      {"HasRulesFile", "ConditionalOnly"})
        languages_with_rules == MainResolved(languages, rules_dir, template.c,
                                             {"HasRulesFile"})
        language_rules == main_build_language_rules(languages_with_rules, rules_dir)
    IN IF ~is_file(template) THEN Err(<<"Failed to read", "CLAUDE-template.md">>)
       ELSE IF ~language_rules.ok THEN language_rules
       ELSE main_render(template.c, all_languages, language_rules.v)

RECURSIVE MainMergeHooks(_, _, _)
\* the loop of update_settings_with_hooks over the hook names
MainMergeHooks(hooks, hooks_dir, merged_hooks) ==
    IF hooks = <<>> THEN Ok(merged_hooks)
    ELSE LET hook_name == Head(hooks)
             hook_file == Child(hooks_dir, hook_name \o ".json")
             hook_json == from_str_value(hook_file.c)
             r == MergeHookEntries(hook_json.v.o, merged_hooks)
         IN IF ~exists(hook_file) THEN Err(<<"Hook not found", hook_name>>)
            ELSE IF ~is_file(hook_file) THEN Err(<<"read", hook_name>>)
            ELSE IF ~hook_json.ok THEN hook_json
            ELSE IF hook_json.v.t # "object" THEN Err(<<"is not an object", hook_name>>)
            ELSE IF ~r.ok THEN r
            ELSE MainMergeHooks(Tail(hooks), hooks_dir, r.v)

\* update_settings_with_hooks(hooks, clone_dir): the document written (v)
\* and clone_dir after the write (tree)
update_settings_with_hooks(hooks, clone_dir) ==
    LET claude_dir == Child(clone_dir, ".claude")
        settings_file == Child(claude_dir, "settings.local.json")
        settings == IF exists(settings_file)
                    THEN (IF is_file(settings_file) THEN from_str_value(settings_file.c)
                          ELSE Err(<<"read">>))
                    ELSE Ok(JObject(EmptyMap))
        merged_hooks == MainMergeHooks(hooks, Child(clone_dir, "hooks-template"), EmptyMap)
        fail(e) == e @@ [tree |-> clone_dir]
    IN IF ~settings.ok THEN fail(Err(<<"Failed to parse settings.local.json">>))
       ELSE IF settings.v.t # "object" THEN fail(Err(<<"settings.local.json is not an object">>))
       ELSE IF ~merged_hooks.ok THEN fail(merged_hooks)
       ELSE IF ~is_dir(claude_dir) \/ is_dir(settings_file)
       THEN fail(Err(<<"write", "settings.local.json">>))
       ELSE Ok(MapInsert(settings.v.o, "hooks", JObject(merged_hooks.v)))
            @@ [tree |-> Put(clone_dir, ".claude",
                             Put(claude_dir, "settings.local.json",
                                 File(GeneratedText("settings.local.json"))))]

\* serde_json::from_str on the .mcp.json documents of the model: the
\* mcpServers object, or what is wrong with the document
from_str_mcp(content) ==
    CASE content = <<"{mcpServers:{context7:c7,maps:m}}">> ->
            Ok(<< <<"context7", "c7">>, <<"maps", "m">> >>)
      [] content = <<"{mcpServers:{}}">> -> Ok(EmptyMap)
      [] content = <<"{}">> -> Err(<<".mcp.json missing mcpServers object">>)
      [] OTHER -> Err(<<"Failed to parse .mcp.json">>)

\* filter_mcp_json(mcp_servers, clone_dir): clone_dir afterwards (tree)
filter_mcp_json(mcp_servers, clone_dir) ==
    LET mcp_file == Child(clone_dir, ".mcp.json")
        servers == from_str_mcp(mcp_file.c)
        missing == FilterSeq(mcp_servers, Range(mcp_servers) \ Range(MapKeys(servers.v)))
        kept == FilterSeq(MapKeys(servers.v), Range(mcp_servers))
        fail(e) == e @@ [tree |-> clone_dir]
    IN IF ~exists(mcp_file) THEN Ok(<<>>) @@ [tree |-> clone_dir]
       ELSE IF ~is_file(mcp_file) THEN fail(Err(<<"read", ".mcp.json">>))
       ELSE IF ~servers.ok THEN fail(servers)
       ELSE IF missing # <<>> THEN fail(Err(<<"MCP server not found", Head(missing)>>))
       ELSE IF kept = <<>> THEN Ok(kept) @@ [tree |-> Del(clone_dir, ".mcp.json")]
       ELSE Ok(kept) @@ [tree |-> Put(clone_dir, ".mcp.json", File(<<"mcpServers">> \o kept))]

\* the exclude list of copy_files of main.rs
MainExclude == {".git", "hooks-template", "rules-templates", "README.md", "gitignore-additions"}

\* copy_files(clone_dir) of main.rs: dir is the working directory,
\* enumeration the order in which fs::read_dir yields the entries
main_copy_files(clone_dir, dir, enumeration) ==
    CopyEntries(clone_dir, FilterSeq(enumeration, read_dir(clone_dir) \ MainExclude), dir)

\* what git clone may leave at ./claude-template
MainTrees ==
    { LET more == DirOfPresent(
              "gitignore-additions" :> a
              @@ "rules-templates" :> DirOfPresent(
                     "CLAUDE-template.md" :> t
                     @@ "typescript-rules.md" :> File(<<"t", "s", NL>>)))
      IN Dir(more.ch
             @@ "README.md" :> File(<<"readme">>)
             @@ "hooks-template" :> Dir("sound.json" :> File(<<"{Notification:[beep]}">>))
             @@ ".mcp.json" :> File(<<"{mcpServers:{context7:c7,maps:m}}">>)
             @@ ".claude" :> Dir("settings.local.json" :> File(<<"{permissions:{allow:[]}}">>))) :
      a \in {NoneN, Additions},
      t \in {NoneN, File(MainTemplatePlain), File(MainTemplateSwift)} }

\* the command lines of the binary
MainCommandLines ==
    {[languages |-> l, hooks |-> h, mcp |-> m, clarg |-> None, force |-> FALSE] :
        l \in {<<>>, <<"TS">>, <<"swift">>, <<"Zig">>},
        h \in {<<"sound">>, <<"ghost">>},
        m \in {<<"context7">>, <<"ghost">>, <<>>}}

MainInit ==
    /\ cli \in MainCommandLines
    /\ tree \in {NoneN, Dir("old" :> File(<<"old">>))}
    /\ cwd \in WorkDirs
    /\ cwd0 = cwd
    /\ pc = "m_clone"
    /\ loc = NoLocals
    /\ stdin = <<>>
    /\ result = Running
    /\ log = <<>>
    /\ ret = <<>>

\* run_setup of main.rs returns Err from step: main goes on to remove the
\* clone directory
MainFail(step, err, at) ==
    /\ result' = [status |-> "err", step |-> step, err |-> err, at |-> at]
    /\ pc' = "m_rollback"

\* clone_repo(&repo_url)?: bails when ./claude-template exists, or when git
\* clone fails (it leaves nothing); main returns the error as it is
MainCloneRepo ==
    /\ pc = "m_clone"
    /\ IF exists(tree)
       THEN /\ result' = [status |-> "err", step |-> "clone", at |-> "",
                          err |-> <<"Directory already exists", CLONE_DIR>>]
            /\ pc' = "m_exit"
            /\ UNCHANGED tree
       ELSE \E t \in MainTrees \cup {NoneN} :
            /\ tree' = t
            /\ IF exists(t) THEN pc' = "m_gitignore" /\ UNCHANGED result
               ELSE /\ result' = [status |-> "err", step |-> "clone", at |-> "",
                                  err |-> <<"git clone failed">>]
                    /\ pc' = "m_exit"
    /\ UNCHANGED <<cli, cwd, cwd0, loc, stdin, log, ret>>

\* update_gitignore()?
MainUpdateGitignore ==
    /\ pc = "m_gitignore"
    /\ LET r == update_gitignore(cwd, tree)
       IN /\ cwd' = r.node
          /\ IF r.ok THEN pc' = "m_render" /\ UNCHANGED result
             ELSE MainFail("update_gitignore", r.err, r.at)
    /\ log' = Append(log, "update_gitignore")
    /\ UNCHANGED <<cli, tree, cwd0, loc, stdin, ret>>

\* render_claude_md(&cli.languages, rules_dir)? and fs::write(claude_path, ..)?
MainRenderClaudeMd ==
    /\ pc = "m_render"
    /\ LET r == main_render_claude_md(cli.languages, Child(tree, "rules-templates"))
           w == write_file(tree, "CLAUDE.md", r.v)
       IN IF ~r.ok THEN MainFail("render", r.err, "") /\ UNCHANGED tree
          ELSE IF ~w.ok THEN MainFail("render", <<"write", "CLAUDE.md">>, "") /\ UNCHANGED tree
          ELSE tree' = w.node /\ pc' = "m_hooks" /\ UNCHANGED result
    /\ UNCHANGED <<cli, cwd, cwd0, loc, stdin, log, ret>>

\* update_settings_with_hooks(&cli.hooks, clone_dir)?
MainUpdateSettings ==
    /\ pc = "m_hooks"
    /\ LET r == update_settings_with_hooks(cli.hooks, tree)
       IN /\ tree' = r.tree
          /\ IF r.ok THEN pc' = "m_mcp" /\ loc' = [loc EXCEPT !.settings = r.v]
                          /\ UNCHANGED result
             ELSE MainFail("hooks", r.err, "") /\ UNCHANGED loc
    /\ UNCHANGED <<cli, cwd, cwd0, stdin, log, ret>>

\* filter_mcp_json(&cli.mcp, clone_dir)?
MainFilterMcp ==
    /\ pc = "m_mcp"
    /\ LET r == filter_mcp_json(cli.mcp, tree)
       IN /\ tree' = r.tree
          /\ IF r.ok THEN pc' = "m_copy" /\ loc' = [loc EXCEPT !.active_mcps = r.v]
                          /\ UNCHANGED result
             ELSE MainFail("mcp", r.err, "") /\ UNCHANGED loc
    /\ UNCHANGED <<cli, cwd, cwd0, stdin, log, ret>>

\* copy_files(clone_dir)?, the last step of run_setup
MainCopyFiles ==
    /\ pc = "m_copy"
    /\ \E enumeration \in Orders(read_dir(tree), read_dir(tree) \ MainExclude) :
        LET r == main_copy_files(tree, cwd, enumeration)
        IN /\ cwd' = r.node
           /\ IF r.ok THEN pc' = "m_cleanup" /\ UNCHANGED result
              ELSE MainFail("copy_files", <<"Failed to copy", r.at>>, r.at)
    /\ log' = Append(log, "copy_files")
    /\ UNCHANGED <<cli, tree, cwd0, loc, stdin, ret>>

\* if let Err(e) = run_setup(..) { let _ = fs::remove_dir_all(clone_dir);
\* return Err(e); }
MainRollback ==
    /\ pc = "m_rollback"
    /\ tree' = NoneN
    /\ pc' = "m_exit"
    /\ UNCHANGED <<cli, cwd, cwd0, loc, stdin, result, log, ret>>

\* cleanup(clone_dir)? on the success path
MainCleanup ==
    /\ pc = "m_cleanup"
    /\ tree' = NoneN
    /\ result' = [result EXCEPT !.status = "ok"]
    /\ pc' = "m_exit"
    /\ UNCHANGED <<cli, cwd, cwd0, loc, stdin, log, ret>>

MainNext ==
    \/ MainCloneRepo
    \/ MainUpdateGitignore
    \/ MainRenderClaudeMd
    \/ MainUpdateSettings
    \/ MainFilterMcp
    \/ MainCopyFiles
    \/ MainRollback
    \/ MainCleanup

SpecMain == MainInit /\ [][MainNext]_vars

\* the steps of run_setup of main.rs
MainSteps == {"update_gitignore", "render", "hooks", "mcp", "copy_files"}

\* C3: when run_setup has failed, main has deleted the scratch tree and a
\* .gitignore that did not exist before the run does not exist after it; a
\* .gitignore that existed before is still there.
C3_RollbackOnFailure ==
    (pc = "m_exit" /\ result.status = "err" /\ result.step \in MainSteps)
        => /\ ~exists(tree)
           /\ ~exists(Child(cwd0, ".gitignore")) => ~exists(Child(cwd, ".gitignore"))
           /\ exists(Child(cwd0, ".gitignore")) => exists(Child(cwd, ".gitignore"))

(***************************************************************************)
(* build_settings on its own: template trees that differ in the base       *)
(* settings document, hooks/default/, the named hook files and .claude,    *)
(* every short list of hook names, with and without a clarg entry.         *)
(***************************************************************************)
MaxHooks == 2

\* the base settings documents of the model (NoneN: no settings.local.json)
BaseSettings ==
    { NoneN,
      File(<<"{}">>),
      File(<<"{permissions:{allow:[]}}">>),
      File(<<"{permissions:{allow:[]},hooks:{Stop:[old]},enabledMcpjsonServers:[old]}">>),
      File(<<"[]">>),
      File(<<"not json">>) }

\* the hooks/default directories of the model
HookDefaults ==
    { NoneN,
      Dir("sound.json" :> File(<<"{Notification:[beep]}">>)),
      Dir("sound.json" :> File(<<"{Notification:[beep]}">>)
          @@ "lint.json" :> File(<<"{Notification:[notify-lint],PreToolUse:[lint]}">>)
          @@ "notes.txt" :> File(<<"{Notification:[a1,a2]}">>)) }

\* the template trees of the model: what build_settings reads
SettingsTrees ==
    { DirOfPresent("settings.local.json" :> b
                   @@ "hooks" :> DirOfPresent("default" :> d @@ "a.json" :> x @@ "b.json" :> y)
                   @@ ".claude" :> c) :
        b \in BaseSettings, d \in HookDefaults,
        x \in {NoneN, File(<<"{Notification:[a1,a2]}">>)},
        y \in {NoneN, File(<<"{PreToolUse:[b1],Notification:[b2]}">>),
               File(<<"{Notification:1}">>)},
        c \in {NoneN, File(<<"in the way">>)} }

SettingsInit ==
    /\ cli \in {[languages |-> <<>>, hooks |-> h, mcp |-> <<>>, clarg |-> None, force |-> FALSE] :
                  h \in SeqsUpTo({"a", "b", "ghost"}, MaxHooks)}
    /\ tree \in SettingsTrees
    /\ cwd = EmptyDir
    /\ cwd0 = EmptyDir
    /\ pc = "s_call"
    /\ loc \in {[NoLocals EXCEPT !.clarg_entries = e, !.active_mcps = m] :
                  e \in {<<>>, <<"clarg .claude/clarg-strict.yaml">>},
                  m \in {<<>>, <<"s3", "context7">>}}
    /\ stdin = <<>>
    /\ result = Running
    /\ log = <<>>
    /\ ret = <<>>

\* build_settings(&named_hooks, &clarg_entries, &active_mcps, clone_dir): ret
\* holds the result with clone_dir as it was before the call
SettingsCall ==
    /\ pc = "s_call"
    /\ \E enumeration \in Perms(read_dir(At(tree, <<"hooks", "default">>))) :
        LET r == build_settings(cli.hooks, loc.clarg_entries, loc.active_mcps, tree,
                                enumeration)
        IN /\ ret' = r @@ [clone_dir |-> tree]
           /\ tree' = r.tree
    /\ pc' = "s_returned"
    /\ UNCHANGED <<cli, cwd, cwd0, loc, stdin, result, log>>

SettingsNext == SettingsCall

SpecSettings == SettingsInit /\ [][SettingsNext]_vars

\* both assemblies that take explicitly requested names
NamedInit == McpInit \/ SettingsInit

NamedNext ==
    \/ McpCall
    \/ SettingsCall

SpecNamed == NamedInit /\ [][NamedNext]_vars

\* the requested names that have no file, in caller order
MissingMcps ==
    FilterSeq(cli.mcp, {n \in Range(cli.mcp) : ~exists(At(tree, <<"mcp", n \o ".json">>))})

MissingHooks ==
    FilterSeq(cli.hooks,
              {n \in Range(cli.hooks) : ~exists(At(ret.clone_dir, <<"hooks", n \o ".json">>))})

HookSources ==
    LET S == {n \in read_dir(At(ret.clone_dir, <<"hooks", "default">>)) : has_json_ext(n)}
        s == CHOOSE q \in Perms(S) :
                \A i, j \in DOMAIN q : i < j => NameRank(q[i]) < NameRank(q[j])
    IN [i \in DOMAIN s |-> <<"hooks", "default", s[i]>>]
       \o [i \in DOMAIN cli.hooks |-> <<"hooks", cli.hooks[i] \o ".json">>]

EventTypes == {"Notification", "PreToolUse", "Stop"}

\* the entries a hook file holds for an event type
EntriesIn(path, event) ==
    LET obj == from_str_value(At(ret.clone_dir, path).c).v.o
    IN IF MapHas(obj, event) THEN MapGet(obj, event).a ELSE <<>>

RECURSIVE ConcatEntries(_, _)
ConcatEntries(sources, event) ==
    IF sources = <<>> THEN <<>>
    ELSE EntriesIn(Head(sources), event) \o ConcatEntries(Tail(sources), event)

RECURSIVE SumLengths(_, _)
SumLengths(sources, event) ==
    IF sources = <<>> THEN 0
    ELSE Len(EntriesIn(Head(sources), event)) + SumLengths(Tail(sources), event)

ExtraEntries(event) == IF event = "PreToolUse" THEN loc.clarg_entries ELSE <<>>

WrittenHooks == MapGet(ret.v, "hooks").o

\* C12: in the hooks mapping build_settings writes, the array of every event
\* type is the concatenation of its entries from the files of hooks/default/
\* (ascending file name), then the named files (caller order), then, for
\* PreToolUse, the clarg entries; its length is the sum of the contributions.
C12_HooksAdditive ==
    (pc = "s_returned" /\ ret.ok)
        => /\ Range(MapKeys(WrittenHooks)) \subseteq EventTypes
           /\ \A event \in EventTypes :
                LET expected == ConcatEntries(HookSources, event) \o ExtraEntries(event)
                    written == IF MapHas(WrittenHooks, event)
                               THEN MapGet(WrittenHooks, event).a ELSE <<>>
                IN /\ written = expected
                   /\ Len(written) = SumLengths(HookSources, event) + Len(ExtraEntries(event))

C12_Witness ==
    /\ pc = "s_returned" /\ ret.ok
    /\ cli.hooks = <<"b", "a">>
    /\ loc.clarg_entries # <<>>
    /\ MapGet(WrittenHooks, "Notification").a = <<"notify-lint", "beep", "b2", "a1", "a2">>
    /\ MapGet(WrittenHooks, "PreToolUse").a
          = <<"lint", "b1", "clarg .claude/clarg-strict.yaml">>

\* the base settings document of the call ({} when there is no file)
BaseDocument ==
    IF exists(Child(ret.clone_dir, "settings.local.json"))
    THEN from_str_value(Child(ret.clone_dir, "settings.local.json").c).v.o
    ELSE EmptyMap

\* C13: the document build_settings writes keeps every top-level key of the
\* base document other than hooks and enabledMcpjsonServers with its base
\* value; hooks holds only merged entries (none of the base hooks), and
\* enabledMcpjsonServers is the given list of active names in its order.
C13_SettingsFrame ==
    (pc = "s_returned" /\ ret.ok)
        => /\ \A key \in Range(MapKeys(BaseDocument)) \ {"hooks", "enabledMcpjsonServers"} :
                MapHas(ret.v, key) /\ MapGet(ret.v, key) = MapGet(BaseDocument, key)
           /\ Range(MapKeys(ret.v))
                = Range(MapKeys(BaseDocument)) \cup {"hooks", "enabledMcpjsonServers"}
           /\ Len(ret.v) = Cardinality(Range(MapKeys(ret.v)))
           /\ MapGet(ret.v, "hooks").t = "object"
           /\ ~MapHas(WrittenHooks, "Stop")
           /\ (HookSources = <<>> /\ loc.clarg_entries = <<>>) => WrittenHooks = EmptyMap
           /\ MapGet(ret.v, "enabledMcpjsonServers") = JArray(loc.active_mcps)

C13_Witness ==
    /\ pc = "s_returned" /\ ret.ok
    /\ MapHas(BaseDocument, "permissions") /\ MapHas(BaseDocument, "hooks")
    /\ MapGet(BaseDocument, "hooks") = JObject(<< <<"Stop", JArray(<<"old">>)>> >>)
    /\ MapGet(BaseDocument, "enabledMcpjsonServers") = JArray(<<"old">>)
    /\ cli.hooks = <<"a">>
    /\ loc.active_mcps = <<"s3", "context7">>
    /\ MapGet(ret.v, "enabledMcpjsonServers") = JArray(<<"s3", "context7">>)

\* C14 as stated: after a successful build_settings the base settings file
\* settings.local.json of clone_dir, the path it read, holds the written
\* document.
C14_WrittenOverBase ==
    (pc = "s_returned" /\ ret.ok)
        => Child(tree, "settings.local.json") = File(GeneratedText("settings.local.json"))

\* C14 amended: build_settings reads clone_dir/settings.local.json and writes
\* the document to clone_dir/.claude/settings.local.json, creating .claude;
\* the base settings file and everything else of clone_dir stay as they were.
C14_SettingsOutputLocation ==
    (pc = "s_returned" /\ ret.ok)
        => /\ At(tree, <<".claude", "settings.local.json">>)
                = File(GeneratedText("settings.local.json"))
           /\ Child(tree, "settings.local.json") = Child(ret.clone_dir, "settings.local.json")
           /\ \A n \in read_dir(tree) \cup read_dir(ret.clone_dir) :
                n # ".claude" => Child(tree, n) = Child(ret.clone_dir, n)

C14_Witness ==
    /\ pc = "s_returned" /\ ret.ok
    /\ Child(ret.clone_dir, "settings.local.json") = File(<<"{permissions:{allow:[]}}">>)
    /\ Child(tree, "settings.local.json") = File(<<"{permissions:{allow:[]}}">>)
    /\ ~exists(Child(ret.clone_dir, ".claude"))
    /\ is_file(At(tree, <<".claude", "settings.local.json">>))

(***************************************************************************)
(* The server names: assemble_mcp_json on its own together with the runs   *)
(* of run_setup, which hand the names on to build_settings.                *)
(***************************************************************************)
ServersInit == Init \/ McpInit

ServersNext ==
    \/ Next
    \/ McpCall

SpecServers == ServersInit /\ [][ServersNext]_vars

\* the keys of a map in its iteration order
KeySequence(m) == [i \in DOMAIN m |-> m[i][1]]

\* the steps of run_setup after the staging phase
StagedPcs == {"preflight", "confirm", "remove", "gitignore", "copy_files", "copy_copied", "done"}

\* C15: the names assemble_mcp_json returns are the keys of the mcpServers
\* map it returns, each once, in the map's iteration order; after the staging
\* phase of run_setup, enabledMcpjsonServers of the staged settings document
\* is the key sequence of mcpServers of the staged .mcp.json.
C15_ServerNames ==
    /\ (pc = "returned" /\ ret.ok)
          => /\ ret.v.names = KeySequence(ret.v.mcpServers)
             /\ \A i, j \in DOMAIN ret.v.names : ret.v.names[i] = ret.v.names[j] => i = j
    /\ pc \in StagedPcs
          => /\ is_file(Child(tree, ".mcp.json"))
             /\ is_file(At(tree, <<".claude", "settings.local.json">>))
             /\ MapGet(loc.settings, "enabledMcpjsonServers") = JArray(KeySequence(loc.mcp_json))

C15_Witness ==
    /\ pc = "preflight"
    /\ cli.mcp = <<"maps">>
    /\ KeySequence(loc.mcp_json) = <<"context7", "s3", "s1">>
    /\ MapGet(loc.settings, "enabledMcpjsonServers").a = <<"context7", "s3", "s1">>

\* C16: when the template has no mcp directory, assemble_mcp_json succeeds
\* with an empty mcpServers map and an empty name list exactly when no server
\* is named, whatever the languages; with a named server it fails.
C16_MissingMcpDirectory ==
    (pc = "returned" /\ ~exists(Child(tree, "mcp")))
        => /\ ret.ok <=> cli.mcp = <<>>
           /\ ret.ok => ret.v = [mcpServers |-> <<>>, names |-> <<>>]
           /\ ~ret.ok => ret.v = <<>> /\ ret.err # <<>>

C16_Witness ==
    /\ pc = "returned" /\ ~exists(Child(tree, "mcp"))
    /\ cli.languages = <<"typescript", "python">> /\ cli.mcp = <<>>
    /\ ret.ok /\ ret.v.names = <<>>

(***************************************************************************)
(* Language resolution on its own: resolve_language on one token and       *)
(* resolve_all_languages on a list, over templates that differ in the      *)
(* rules files and the conditional directories.                            *)
(***************************************************************************)
MaxTokens == 2

\* the language tokens of the model: aliases and names in several cases, a
\* name outside the alias table
LangTokens == {"TS", "ts", "TypeScript", "typescript", "PY", "swift", "Zig", "zig"}

\* the template trees of the model: what resolve_language looks at
LangTrees ==
    { DirOfPresent(
          "claude-md" :> Dir("lang-rules" :> DirOfPresent("typescript.md" :> rt
                                                          @@ "zig.md" :> rz))
          @@ "commands" :> DirOfPresent("typescript" :> ct)
          @@ "skills" :> DirOfPresent("python" :> sp)
          @@ "copied" :> DirOfPresent("swift" :> cs)
          @@ "mcp" :> DirOfPresent("zig" :> mz @@ "python.json" :> File(<<"{s1:P}">>))) :
        rt \in {NoneN, File(<<"t", "s", NL>>), Dir("x" :> File(<<"x">>))},
        rz \in {NoneN, File(<<"z">>)},
        ct \in {NoneN, Dir("commit.md" :> File(<<"commit">>)), File(<<"not a directory">>)},
        sp \in {NoneN, EmptyDir},
        cs \in {NoneN, File(<<"not a directory">>)},
        mz \in {NoneN, Dir("z.json" :> File(<<"{s1:A}">>))} }

LangInit ==
    /\ cli \in {[languages |-> l, hooks |-> <<>>, mcp |-> <<>>, clarg |-> None, force |-> FALSE] :
                  l \in SeqsUpTo(LangTokens, MaxTokens)}
    /\ tree \in LangTrees
    /\ cwd = EmptyDir
    /\ cwd0 = EmptyDir
    /\ pc = "l_call"
    /\ loc = NoLocals
    /\ stdin = <<>>
    /\ result = Running
    /\ log = <<>>
    /\ ret = <<>>

\* resolve_language(input, clone_dir) on one of the tokens
LangResolve ==
    /\ pc = "l_call"
    /\ \E i \in DOMAIN cli.languages :
        ret' = [input |-> cli.languages[i], r |-> resolve_language(cli.languages[i], tree)]
    /\ pc' = "l_resolved"
    /\ UNCHANGED <<cli, tree, cwd, cwd0, loc, stdin, result, log>>

\* resolve_all_languages(&cli.languages, clone_dir)
LangResolveAll ==
    /\ pc = "l_call"
    /\ ret' = resolve_all_languages(cli.languages, tree)
    /\ pc' = "l_resolved_all"
    /\ UNCHANGED <<cli, tree, cwd, cwd0, loc, stdin, result, log>>

LangNext ==
    \/ LangResolve
    \/ LangResolveAll

SpecLang == LangInit /\ [][LangNext]_vars

\* the canonical identifier of each token: the alias table's value for the
\* lowercased token, else the lowercased token
ExpectedCanonical(token) ==
    CASE token \in {"TS", "ts", "TypeScript", "typescript"} -> "typescript"
      [] token = "PY" -> "python"
      [] token = "swift" -> "swift"
      [] token \in {"Zig", "zig"} -> "zig"

RulesFileExists(c) == exists(At(tree, <<"claude-md", "lang-rules", c \o ".md">>))

ConditionalDirectory(c) ==
    \E d \in {"commands", "skills", "copied", "mcp"} : is_dir(At(tree, <<d, c>>))

\* C17: resolve_language returns HasRulesFile(c) exactly when
\* claude-md/lang-rules/c.md exists, otherwise ConditionalOnly(c) exactly
\* when one of commands/c, skills/c, copied/c, mcp/c is a directory,
\* otherwise NoMatch; c is the canonical identifier of the token.
C17_ThreeStateResolution ==
    pc = "l_resolved"
        => LET c == ExpectedCanonical(ret.input)
           IN /\ ret.r.state \in {"HasRulesFile", "ConditionalOnly", "NoMatch"}
              /\ ret.r.state = "HasRulesFile" <=> RulesFileExists(c)
              /\ ret.r.state = "ConditionalOnly"
                    <=> (~RulesFileExists(c) /\ ConditionalDirectory(c))
              /\ ret.r.state = "NoMatch" <=> (~RulesFileExists(c) /\ ~ConditionalDirectory(c))
              /\ ret.r.state # "NoMatch" => ret.r.canonical = c

C17_Witness ==
    /\ pc = "l_resolved" /\ ret.input = "TS"
    /\ RulesFileExists("typescript") /\ ConditionalDirectory("typescript")
    /\ ret.r = [state |-> "HasRulesFile", canonical |-> "typescript"]

\* the positions of the tokens that match nothing in the template
NoMatchPositions ==
    {i \in DOMAIN cli.languages :
        LET c == ExpectedCanonical(cli.languages[i])
        IN ~RulesFileExists(c) /\ ~ConditionalDirectory(c)}

\* C18: resolve_all_languages fails exactly when some token resolves to
\* NoMatch, with the error of the first such token; otherwise it returns the
\* canonical identifiers of the tokens, position by position, duplicates kept.
C18_ResolveAllFailFast ==
    pc = "l_resolved_all"
        => /\ ret.ok <=> NoMatchPositions = {}
           /\ ~ret.ok =>
                LET first == CHOOSE i \in NoMatchPositions :
                                \A j \in NoMatchPositions : i <= j
                IN ret.err = <<"Unknown language", cli.languages[first],
                               ExpectedCanonical(cli.languages[first])>>
           /\ ret.ok => /\ Len(ret.v) = Len(cli.languages)
                        /\ \A i \in DOMAIN cli.languages :
                              ret.v[i] = ExpectedCanonical(cli.languages[i])

C18_Witness ==
    /\ pc = "l_resolved_all" /\ ret.ok
    /\ cli.languages = <<"TS", "typescript">>
    /\ ret.v = <<"typescript", "typescript">>

(***************************************************************************)
(* Rules building on its own: build_language_rules and build_mcp_rules     *)
(* over claude-md directories that differ in the rules files.              *)
(***************************************************************************)
\* the claude-md directories of the model
RulesDirs ==
    { DirOfPresent("lang-rules" :> l @@ "mcp-rules" :> m) :
        l \in {NoneN} \cup
              {DirOfPresent("typescript.md" :> t @@ "python.md" :> y) :
                  t \in {NoneN, File(<<" ", "t", "s", " ", "1", NL>>), EmptyDir},
                  y \in {NoneN, File(<<NL, "p", "y", NL, NL>>), File(<<" ", NL>>)}},
        m \in {NoneN} \cup
              {DirOfPresent("context7.md" :> c @@ "s3.md" :> x) :
                  c \in {NoneN, File(<<"c", "7", NL>>)},
                  x \in {NoneN, File(<<"\t", "s", "3">>), EmptyDir}} }

RulesInit ==
    /\ cli \in {[languages |-> l, hooks |-> <<>>, mcp |-> m, clarg |-> None, force |-> FALSE] :
                  l \in SeqsUpTo({"typescript", "python", "zig"}, MaxLangs),
                  m \in SeqsUpTo({"context7", "s3"}, MaxNamed)}
    /\ tree \in {Dir("claude-md" :> d) : d \in RulesDirs}
    /\ cwd = EmptyDir
    /\ cwd0 = EmptyDir
    /\ pc = "r_call"
    /\ loc = NoLocals
    /\ stdin = <<>>
    /\ result = Running
    /\ log = <<>>
    /\ ret = <<>>

\* build_language_rules(languages, &claude_md_dir)
BuildLanguageRules ==
    /\ pc = "r_call"
    /\ ret' = build_language_rules(cli.languages, Child(tree, "claude-md"))
    /\ pc' = "r_lang_rules"
    /\ UNCHANGED <<cli, tree, cwd, cwd0, loc, stdin, result, log>>

\* build_mcp_rules(active_mcp_names, &claude_md_dir)
BuildMcpRules ==
    /\ pc = "r_call"
    /\ ret' = build_mcp_rules(cli.mcp, Child(tree, "claude-md"))
    /\ pc' = "r_mcp_rules"
    /\ UNCHANGED <<cli, tree, cwd, cwd0, loc, stdin, result, log>>

RulesNext ==
    \/ BuildLanguageRules
    \/ BuildMcpRules

SpecRules == RulesInit /\ [][RulesNext]_vars

\* the rules texts of the model without their leading and trailing whitespace
TrimmedText(content) ==
    CASE content = <<" ", "t", "s", " ", "1", NL>> -> <<"t", "s", " ", "1">>
      [] content = <<NL, "p", "y", NL, NL>> -> <<"p", "y">>
      [] content = <<" ", NL>> -> <<>>
      [] content = <<"c", "7", NL>> -> <<"c", "7">>
      [] content = <<"\t", "s", "3">> -> <<"s", "3">>

RulesPath(sub, name) == At(tree, <<"claude-md", sub, name \o ".md">>)

RECURSIVE ExpectedRules(_, _, _)
\* the blocks of the names that have a rules file, in list order, with one
\* blank line between two blocks
ExpectedRules(names, sub, suffix) ==
    IF names = <<>> THEN <<>>
    ELSE LET name == Head(names)
             rest == ExpectedRules(Tail(names), sub, suffix)
             block == <<"<" \o name \o suffix \o ">", NL>>
                      \o TrimmedText(RulesPath(sub, name).c)
                      \o <<NL, "</" \o name \o suffix \o ">">>
         IN IF ~exists(RulesPath(sub, name)) THEN rest
            ELSE IF rest = <<>> THEN block
            ELSE block \o <<NL, NL>> \o rest

\* the call fails only on a rules path that exists and cannot be read as a
\* file (a directory)
Unreadable(names, sub) ==
    \E i \in DOMAIN names : exists(RulesPath(sub, names[i])) /\ ~is_file(RulesPath(sub, names[i]))

\* C19: build_language_rules returns, for the listed languages that have a
\* rules file and in list order, the blocks "<L-rules>\n" trimmed content
\* "\n</L-rules>" joined by one blank line; languages without a rules file
\* are skipped, a repeated language repeats its block, no block gives the
\* empty text.  build_mcp_rules does the same with <name-mcp-rules> over
\* mcp-rules/<name>.md.
C19_RuleAggregation ==
    /\ pc = "r_lang_rules"
          => /\ ret.ok <=> ~Unreadable(cli.languages, "lang-rules")
             /\ ret.ok => ret.v = ExpectedRules(cli.languages, "lang-rules", "-rules")
    /\ pc = "r_mcp_rules"
          => /\ ret.ok <=> ~Unreadable(cli.mcp, "mcp-rules")
             /\ ret.ok => ret.v = ExpectedRules(cli.mcp, "mcp-rules", "-mcp-rules")

C19_Witness ==
    /\ pc = "r_lang_rules" /\ ret.ok
    /\ cli.languages = <<"python", "typescript">>
    /\ ret.v = <<"<python-rules>", NL, "p", "y", NL, "</python-rules>", NL, NL,
                 "<typescript-rules>", NL, "t", "s", " ", "1", NL, "</typescript-rules>">>

(***************************************************************************)
(* copy_conditional_dir on its own: tree is the node at source_dir, cwd    *)
(* the node at dest_dir (cwd0 as it was before the call).                  *)
(***************************************************************************)
\* the conditional directories of the model (NoneN: no such directory)
ConditionalSources ==
    { NoneN, File(<<"not a directory">>) }
    \cup { DirOfPresent("default" :> d @@ "typescript" :> t @@ "python" :> y) :
             d \in { NoneN, File(<<"not a directory">>),
                     Dir("a.md" :> File(<<"da">>)),
                     Dir("a.md" :> File(<<"da">>) @@ "sub" :> Dir("b.md" :> File(<<"db">>))) },
             t \in { NoneN,
                     Dir("a.md" :> File(<<"ta">>)),
                     Dir("t.md" :> File(<<"tt">>)),
                     Dir("sub" :> Dir("b.md" :> File(<<"tb">>) @@ "c.md" :> File(<<"tc">>))),
                     Dir("sub" :> File(<<"a file">>)) },
             y \in { NoneN,
                     Dir("a.md" :> File(<<"pa">>)),
                     Dir("p.md" :> File(<<"pp">>)) } }

\* what dest_dir may hold before the call
ConditionalDests ==
    { NoneN, EmptyDir,
      Dir("a.md" :> File(<<"old">>) @@ "keep.md" :> File(<<"keep">>)),
      File(<<"in the way">>) }

CopyInit ==
    /\ cli \in {[languages |-> l, hooks |-> <<>>, mcp |-> <<>>, clarg |-> None, force |-> FALSE] :
                  l \in SeqsUpTo({"typescript", "python", "zig"}, MaxLangs)}
    /\ tree \in ConditionalSources
    /\ cwd \in ConditionalDests
    /\ cwd0 = cwd
    /\ pc = "c_call"
    /\ loc = NoLocals
    /\ stdin = <<>>
    /\ result = Running
    /\ log = <<>>
    /\ ret = <<>>

\* copy_conditional_dir(source_dir, languages, dest_dir)
CopyCall ==
    /\ pc = "c_call"
    /\ \E enum \in Enumerations(tree, {"default"} \cup Range(cli.languages)) :
        LET r == copy_conditional_dir(tree, cli.languages, cwd, enum)
        IN /\ ret' = r
           /\ cwd' = r.node
    /\ pc' = "c_returned"
    /\ UNCHANGED <<cli, tree, cwd0, loc, stdin, result, log>>

CopyNext == CopyCall

SpecCopy == CopyInit /\ [][CopyNext]_vars

RECURSIVE FilePaths(_, _)
\* the relative paths of the files below a node
FilePaths(node, prefix) ==
    IF is_file(node) THEN {prefix}
    ELSE IF is_dir(node)
         THEN UNION {FilePaths(node.ch[n], Append(prefix, n)) : n \in DOMAIN node.ch}
         ELSE {}

\* the contributing subdirectories in order: default, then the languages in
\* caller order, each if it is a directory
Contributing ==
    FilterSeq(<<"default">> \o cli.languages,
              {n \in {"default"} \cup Range(cli.languages) : is_dir(Child(tree, n))})

ContributedPaths ==
    UNION {FilePaths(Child(tree, Contributing[i]), <<>>) : i \in DOMAIN Contributing}

\* the file at path of the last contributing subdirectory that has one
LastContribution(path) ==
    LET has == {i \in DOMAIN Contributing : is_file(At(Child(tree, Contributing[i]), path))}
        last == CHOOSE i \in has : \A j \in has : j <= i
    IN At(Child(tree, Contributing[last]), path)

\* C20: after a successful copy_conditional_dir every relative file path of
\* a contributing subdirectory (default, then the languages in caller order)
\* is a file of the destination with the content of the last contributing
\* subdirectory that has it; when the source does not exist or nothing
\* contributes the call succeeds and the destination is as it was.
C20_ConditionalCopyPrecedence ==
    pc = "c_returned"
        => /\ (ret.ok /\ Contributing # <<>>)
                => /\ is_dir(cwd)
                   /\ \A path \in ContributedPaths : At(cwd, path) = LastContribution(path)
           /\ (~exists(tree) \/ Contributing = <<>>) => (ret.ok /\ cwd = cwd0)

C20_Witness ==
    /\ pc = "c_returned" /\ ret.ok
    /\ cli.languages = <<"python", "typescript">>
    /\ ~exists(cwd0)
    /\ At(tree, <<"default", "a.md">>) = File(<<"da">>)
    /\ At(tree, <<"python", "a.md">>) = File(<<"pa">>)
    /\ At(tree, <<"typescript", "sub", "c.md">>) = File(<<"tc">>)
    /\ At(cwd, <<"a.md">>) = File(<<"pa">>)
    /\ At(cwd, <<"sub", "b.md">>) = File(<<"tb">>)
    /\ At(cwd, <<"sub", "c.md">>) = File(<<"tc">>)

(***************************************************************************)
(* update_gitignore on its own, called once and then once more: cwd is the *)
(* working directory, tree the node at ./claude-template.                  *)
(***************************************************************************)
\* what .gitignore may hold before the call (NoneN: no file)
GitignoreFiles ==
    { NoneN,
      File(<<>>),
      File(<<"n">>),
      File(<<"n", NL>>),
      File(<<" ", ".", "c", "/", " ", NL, "n">>),
      File(<<".", "c", "/", "\r", NL, NL>>),
      File(<<".", "m", NL, ".", "c", "/", NL>>),
      EmptyDir }

\* the gitignore-additions files of the model (NoneN: the template has none)
AdditionsFiles ==
    { NoneN,
      File(<<>>),
      File(<<NL, " ", NL>>),
      File(<<".", "c", "/", NL>>),
      File(<<" ", ".", "c", "/", "\t", NL, NL, ".", "m">>),
      File(<<".", "m", NL, ".", "c", "/", NL, ".", "m", NL>>),
      File(<<"n", "\r", NL, ".", "c", "/", "\r", NL>>) }

GitignoreInit ==
    /\ cli = [languages |-> <<>>, hooks |-> <<>>, mcp |-> <<>>, clarg |-> None, force |-> FALSE]
    /\ tree \in {DirOfPresent("gitignore-additions" :> a) : a \in AdditionsFiles}
    /\ cwd \in {DirOfPresent(".gitignore" :> g @@ "notes.txt" :> File(<<"user">>)) :
                  g \in GitignoreFiles}
    /\ cwd0 = cwd
    /\ pc = "g_call"
    /\ loc = NoLocals
    /\ stdin = <<>>
    /\ result = Running
    /\ log = <<>>
    /\ ret = <<>>

\* update_gitignore(): ret.first is the working directory it leaves
GitignoreCall ==
    /\ pc = "g_call"
    /\ LET r == update_gitignore(cwd, tree)
       IN /\ cwd' = r.node
          /\ ret' = [ok |-> r.ok, first |-> r.node, again |-> FALSE]
    /\ pc' = "g_once"
    /\ UNCHANGED <<cli, tree, cwd0, loc, stdin, result, log>>

\* update_gitignore() once more after a successful call
GitignoreCallAgain ==
    /\ pc = "g_once" /\ ret.ok
    /\ LET r == update_gitignore(cwd, tree)
       IN /\ cwd' = r.node
          /\ ret' = [ret EXCEPT !.again = r.ok]
    /\ pc' = "g_twice"
    /\ UNCHANGED <<cli, tree, cwd0, loc, stdin, result, log>>

GitignoreNext ==
    \/ GitignoreCall
    \/ GitignoreCallAgain

SpecGitignore == GitignoreInit /\ [][GitignoreNext]_vars

\* the trimmed lines of the .gitignore contents of the model
ExistingTrimmedLines(content) ==
    CASE content = <<>> -> {}
      [] content = <<"n">> -> {<<"n">>}
      [] content = <<"n", NL>> -> {<<"n">>}
      [] content = <<" ", ".", "c", "/", " ", NL, "n">> -> {<<".", "c", "/">>, <<"n">>}
      [] content = <<".", "c", "/", "\r", NL, NL>> -> {<<".", "c", "/">>, <<>>}
      [] content = <<".", "m", NL, ".", "c", "/", NL>> -> {<<".", "m">>, <<".", "c", "/">>}

\* the trimmed non-empty lines of the additions of the model, in their order
AdditionEntries(content) ==
    CASE content = <<>> -> <<>>
      [] content = <<NL, " ", NL>> -> <<>>
      [] content = <<".", "c", "/", NL>> -> << <<".", "c", "/">> >>
      [] content = <<" ", ".", "c", "/", "\t", NL, NL, ".", "m">> ->
            << <<".", "c", "/">>, <<".", "m">> >>
      [] content = <<".", "m", NL, ".", "c", "/", NL, ".", "m", NL>> ->
            << <<".", "m">>, <<".", "c", "/">>, <<".", "m">> >>
      [] content = <<"n", "\r", NL, ".", "c", "/", "\r", NL>> ->
            << <<"n">>, <<".", "c", "/">> >>

\* the content of .gitignore in a working directory (empty when absent)
GitignoreContent(dir) ==
    IF exists(Child(dir, ".gitignore")) THEN Child(dir, ".gitignore").c ELSE <<>>

\* the entries of the additions that no trimmed line of the previous
\* content equals
FreshEntries ==
    LET entries == AdditionEntries(Child(tree, "gitignore-additions").c)
        had == ExistingTrimmedLines(GitignoreContent(cwd0))
    IN FilterSeq(entries, Range(entries) \ had)

RECURSIVE Terminated(_)
Terminated(entries) ==
    IF entries = <<>> THEN <<>> ELSE Head(entries) \o <<"\n">> \o Terminated(Tail(entries))

\* C21: after a successful update_gitignore the previous content of
\* .gitignore is a prefix of the new one; what is appended is a newline when
\* the previous content does not end with one, a blank line, the line
\* "# Claude related" and the fresh entries in additions order, one per
\* line; with no fresh entry the working directory is left as it was.
C21_GitignoreAppendOnly ==
    (pc = "g_once" /\ ret.ok)
        => LET old == GitignoreContent(cwd0)
               new == GitignoreContent(cwd)
               sep == IF old # <<>> /\ old[Len(old)] = "\n" THEN <<>> ELSE <<"\n">>
               header == <<"\n", "#", " ", "C", "l", "a", "u", "d", "e", " ",
                           "r", "e", "l", "a", "t", "e", "d", "\n">>
           IN /\ IsPrefix(old, new)
              /\ FreshEntries = <<>> => cwd = cwd0
              /\ FreshEntries # <<>>
                    => /\ new = old \o sep \o header \o Terminated(FreshEntries)
                       /\ is_file(Child(cwd, ".gitignore"))
                       /\ Child(cwd, "notes.txt") = Child(cwd0, "notes.txt")

C21_Witness ==
    /\ pc = "g_once" /\ ret.ok
    /\ GitignoreContent(cwd0) = <<" ", ".", "c", "/", " ", NL, "n">>
    /\ GitignoreContent(cwd)
          = <<" ", ".", "c", "/", " ", NL, "n", NL, NL, "#", " ", "C", "l", "a", "u", "d", "e",
              " ", "r", "e", "l", "a", "t", "e", "d", NL, ".", "m", NL>>

\* C30: update_gitignore called a second time succeeds and leaves the
\* working directory as the first call left it; "# Claude related" is not
\* appended again.
C30_GitignoreIdempotent ==
    pc = "g_twice" => (ret.again /\ cwd = ret.first)

C30_Witness ==
    /\ pc = "g_twice" /\ ret.again
    /\ cwd # cwd0
    /\ Child(tree, "gitignore-additions").c = <<".", "m", NL, ".", "c", "/", NL, ".", "m", NL>>
    /\ ~exists(Child(cwd0, ".gitignore"))

(***************************************************************************)
(* The three merges together: assemble_mcp_json, build_settings and the    *)
(* rules building, each called once on its inputs.                         *)
(***************************************************************************)
MergeInit == NamedInit \/ RulesInit

MergeNext ==
    \/ NamedNext
    \/ RulesNext

SpecMerge == MergeInit /\ [][MergeNext]_vars

CaseClasses ==
    { {"ts", "TS", "Ts"}, {"typescript", "TypeScript", "TYPESCRIPT", "TypeScripT"},
      {"js", "JS"}, {"javascript", "JavaScript"}, {"rs", "RS"}, {"rust", "Rust"},
      {"py", "PY"}, {"python", "Python"}, {"swift", "Swift", "SWIFT"},
      {"cs", "CS"}, {"csharp", "CSharp"}, {"c#", "C#"},
      {"cpp", "CPP"}, {"cplusplus", "CPlusPlus"}, {"c++", "C++"},
      {"html", "HTML"}, {"svelte", "Svelte"}, {"go", "GO"}, {"golang", "GoLang"},
      {"java", "Java"}, {"rb", "RB"}, {"ruby", "Ruby"},
      {"zig", "Zig", "ZIG"}, {"kotlin", "Kotlin"}, {"c"}, {"objective-c"} }

NormalizeTokens == UNION CaseClasses

NormalizeInit ==
    /\ cli \in {[languages |-> <<t>>, hooks |-> <<>>, mcp |-> <<>>, clarg |-> None,
                 force |-> FALSE] : t \in NormalizeTokens}
    /\ tree = EmptyDir
    /\ cwd = EmptyDir
    /\ cwd0 = EmptyDir
    /\ pc = "n_call"
    /\ loc = NoLocals
    /\ stdin = <<>>
    /\ result = Running
    /\ log = <<>>
    /\ ret = <<>>

\* normalize_language(input).map(String::from).unwrap_or_else(|| input.to_lowercase())
Normalize ==
    /\ pc = "n_call"
    /\ ret' = [input |-> cli.languages[1],
               alias |-> normalize_language(cli.languages[1]),
               canonical |-> canonical_of(cli.languages[1])]
    /\ pc' = "n_normalized"
    /\ UNCHANGED <<cli, tree, cwd, cwd0, loc, stdin, result, log>>

\* the same on the canonical identifier just computed
NormalizeAgain ==
    /\ pc = "n_normalized"
    /\ ret' = [input |-> ret.canonical,
               alias |-> normalize_language(ret.canonical),
               canonical |-> canonical_of(ret.canonical)]
    /\ pc' = "n_again"
    /\ UNCHANGED <<cli, tree, cwd, cwd0, loc, stdin, result, log>>

NormalizeNext ==
    \/ Normalize
    \/ NormalizeAgain

SpecNormalize == NormalizeInit /\ [][NormalizeNext]_vars

\* the values of the alias table
AliasValues ==
    {"typescript", "javascript", "rust", "python", "swift", "csharp", "cplusplus", "html",
     "svelte", "go", "java", "ruby"}

\* C23: the canonical identifier is defined for every token, is the same
\* for the tokens that differ only in letter case, and is a fixed point:
\* the canonical identifier of a canonical identifier is itself; every
\* value of the alias table maps to itself.
C23_NormalizationIdempotent ==
    /\ pc = "n_normalized"
          => /\ ret.canonical \in NormalizeTokens
             /\ \A class \in CaseClasses :
                   ret.input \in class => \A other \in class : canonical_of(other) = ret.canonical
             /\ ret.input \in AliasValues => ret.alias = <<ret.input>>
             /\ ret.alias # <<>> => ret.canonical \in AliasValues
    /\ pc = "n_again" => ret.canonical = ret.input

C23_Witness ==
    /\ pc = "n_again"
    /\ cli.languages = <<"C++">>
    /\ ret.input = "cplusplus" /\ ret.canonical = "cplusplus"

(***************************************************************************)
(* run_setup called a second time: after a run without --force has         *)
(* succeeded, the same command line is run again on the scratch tree and   *)
(* the working directory the first run left (cwd0 is then that directory). *)
(***************************************************************************)
RunAgain ==
    /\ pc = "done" /\ ~cli.force /\ ret = <<>>
    /\ pc' = "resolve"
    /\ loc' = NoLocals
    /\ result' = Running
    /\ stdin' = <<>>
    /\ log' = <<>>
    /\ cwd0' = cwd
    /\ ret' = <<"second run">>
    /\ UNCHANGED <<cli, tree, cwd>>

TwiceNext ==
    \/ Next
    \/ RunAgain

SpecTwice == Init /\ [][TwiceNext]_vars

SecondRun == ret = <<"second run">>

\* C24: the run that follows a successful run without --force, with the
\* same arguments, never changes the working directory the first run left,
\* fails at no step of staging, meets existing destinations at the
\* pre-flight check and never gets past it: its only end is the error of
\* the pre-flight check.
C24_SecondRunAborts ==
    SecondRun
        => /\ cwd = cwd0
           /\ pc \in StagingPcs \cup {"failed"}
           /\ pc = "failed" => (result.status = "err" /\ result.step = "preflight")
           /\ pc = "preflight" => {"CLAUDE.md", ".mcp.json", ".claude"} \subseteq ConflictSet

C24_Witness ==
    /\ ret = <<"second run">> /\ pc = "failed" /\ result.step = "preflight"
    /\ cli.languages = <<"TS">>
    /\ {"CLAUDE.md", ".mcp.json", ".claude", ".gitignore"} \subseteq read_dir(cwd)
    /\ {"CLAUDE.md", ".mcp.json", ".claude"} \subseteq Range(loc.conflicts)

\* the run is in its commit phase or has left it
Committing ==
    \/ pc \in {"gitignore", "copy_files", "copy_copied", "done"}
    \/ pc = "failed" /\ result.step \in CommitSteps

\* C25: the top-level names of the working directory that copy_files and
\* copy_conditional_dir(copied/) create or overwrite are the names the
\* pre-flight check tested: none of them exists when the commit phase
\* starts, all of them exist after the two copies, and no other name but
\* .gitignore (update_gitignore) differs from what it was before the run.
C25_PreflightCoverage ==
    /\ pc = "gitignore" => \A n \in loc.tested : ~exists(Child(cwd, n))
    /\ pc = "done" => \A n \in loc.tested : exists(Child(cwd, n))
    /\ Committing
          => /\ loc.tested = PreflightDestinations
             /\ \A n \in (read_dir(cwd) \cup read_dir(cwd0)) \ (loc.tested \cup {".gitignore"}) :
                   Child(cwd, n) = Child(cwd0, n)

C25_Witness ==
    /\ pc = "done"
    /\ cli.languages = <<"TS">>
    /\ ".gitignore" \notin loc.tested /\ "tsconfig.json" \in loc.tested
    /\ ~exists(Child(cwd0, ".gitignore")) /\ exists(Child(cwd, ".gitignore"))
    /\ exists(Child(cwd0, "notes.txt"))
    /\ ~exists(Child(cwd0, "tsconfig.json")) /\ exists(Child(cwd, "tsconfig.json"))

\* C26: after every successful run, the content .gitignore had in the
\* working directory before the run is a prefix of its content after the
\* run.
C26_GitignoreSurvives ==
    (pc = "done" /\ is_file(Child(cwd0, ".gitignore")))
        => /\ is_file(Child(cwd, ".gitignore"))
           /\ IsPrefix(GitignoreContent(cwd0), GitignoreContent(cwd))

\* run_setup on templates that may have neither mcp/ nor hooks/
SparseTrees == {Del(Del(t, "mcp"), "hooks") : t \in TemplateTrees}

StagedInit ==
    /\ cli \in CommandLines
    /\ tree \in TemplateTrees \cup SparseTrees
    /\ cwd \in WorkDirs
    /\ cwd0 = cwd
    /\ pc = "resolve"
    /\ loc = NoLocals
    /\ stdin = <<>>
    /\ result = Running
    /\ log = <<>>
    /\ ret = <<>>

SpecStaged == StagedInit /\ [][Next]_vars

\* the artifacts the staging phase generates, by top-level name
GeneratedNames == {"CLAUDE.md", ".mcp.json", ".claude"}

\* the staging phase of the run has succeeded
StagingDone ==
    \/ pc \in StagedPcs
    \/ pc = "failed" /\ result.step \in {"preflight", "confirm"} \cup CommitSteps

\* C27: after every successful staging phase the scratch tree holds the files
\* CLAUDE.md, .mcp.json (also when the server mapping is empty) and
\* .claude/settings.local.json (also when no hook exists); the three
\* top-level names are pre-flight destinations, and one that existed in the
\* working directory before the run is a conflict.
C27_GeneratedArtifactsStaged ==
    StagingDone
        => /\ is_file(Child(tree, "CLAUDE.md"))
           /\ is_file(Child(tree, ".mcp.json"))
           /\ is_file(At(tree, <<".claude", "settings.local.json">>))
           /\ GeneratedNames \subseteq PreflightDestinations
           /\ pc # "preflight"
                 => /\ GeneratedNames \subseteq loc.tested
                    /\ \A n \in GeneratedNames :
                          exists(Child(cwd0, n)) => n \in Range(loc.conflicts)

C27_Witness ==
    /\ pc = "failed" /\ result.step = "preflight"
    /\ ~exists(Child(tree, "mcp")) /\ ~exists(Child(tree, "hooks"))
    /\ loc.mcp_json = EmptyMap /\ loc.active_mcps = <<>>
    /\ is_file(Child(tree, ".mcp.json"))
    /\ is_file(At(tree, <<".claude", "settings.local.json">>))
    /\ exists(Child(cwd0, "CLAUDE.md")) /\ ~exists(Child(cwd0, ".claude"))
    /\ Range(loc.conflicts) = {"CLAUDE.md"}

(***************************************************************************)
(* render_claude_md with the fragments of claude-md/misc.                  *)
(***************************************************************************)
MaxMisc == 2

\* serde_json values of the render context: a string or a map
StrValue(text) == [k |-> "str", v |-> text]
MapValue(m) == [k |-> "map", v |-> m]

\* the language and server names of the model in ascending (byte-wise) order
SortedKeys == <<"context7", "python", "s3", "typescript", "zig">>

\* a Vec of (name, true) pairs in place of the BTreeMap: caller order, with
\* the duplicates
PresenceInCallerOrder(names) == [i \in DOMAIN names |-> <<names[i], TRUE>>]

\* names.iter().map(|n| (n, true)).collect::<BTreeMap<&str, bool>>(): one
\* key per distinct name, iterated in ascending key order
BTreeMapOf(names) ==
    LET keys == FilterSeq(SortedKeys, Range(names))
    IN [i \in DOMAIN keys |-> <<keys[i], TRUE>>]

\* the file names of the model that end with .jinja, without that suffix
JinjaBases == {"tips.md"}

\* filename.ends_with(".jinja")
is_jinja(filename) == \E b \in JinjaBases : filename = b \o ".jinja"

\* &filename[..filename.len() - 6] for a jinja file, else the file name
misc_base(filename) ==
    IF is_jinja(filename) THEN CHOOSE b \in JinjaBases : filename = b \o ".jinja"
    ELSE filename

\* the tags of the model
MiscTags == {"general", "lang-rules", "lang_rules", "mcp", "notes", "tips"}

\* base.strip_suffix(".md").unwrap_or(base)
misc_tag_name(base) ==
    IF \E t \in MiscTags : base = t \o ".md"
    THEN CHOOSE t \in MiscTags : base = t \o ".md"
    ELSE base

\* tag_name.replace('-', "_") on the tags of the model
misc_var_name(tag_name) == IF tag_name = "lang-rules" THEN "lang_rules" ELSE tag_name

\* the jinja fragments of the model
FragmentIfTypescript == <<"{% if lang.typescript %}ts tips{% endif %}">>
FragmentBroken == <<"{% if %}">>

\* env.render_str(&content, &partial_ctx) on the fragments of the model
render_fragment(content, lang_dict, mcp_dict) ==
    IF content = FragmentBroken THEN Err(<<"Failed to render">>)
    ELSE IF content = FragmentIfTypescript
         THEN Ok(IF MapHas(lang_dict, "typescript") THEN <<"ts tips">> ELSE <<>>)
         ELSE Ok(content)

RECURSIVE InsertFragments(_, _, _, _, _)
\* the loop over the sorted entries of claude-md/misc: each fragment is
\* wrapped in its tag and inserted under its variable name
InsertFragments(ctx, entries, misc_dir, lang_dict, mcp_dict) ==
    IF entries = <<>> THEN Ok(ctx)
    ELSE LET filename == Head(entries)
             content == Child(misc_dir, filename).c
             tag_name == misc_tag_name(misc_base(filename))
             var_name == misc_var_name(tag_name)
             rendered == IF is_jinja(filename)
                         THEN render_fragment(content, lang_dict, mcp_dict)
                         ELSE Ok(content)
             wrapped == <<"<" \o tag_name \o ">", NL>> \o trim(rendered.v)
                        \o <<NL, "</" \o tag_name \o ">">>
         IN IF ~rendered.ok THEN Err(<<"Failed to render", filename>>)
            ELSE InsertFragments(MapInsert(ctx, var_name, StrValue(wrapped)),
                                 Tail(entries), misc_dir, lang_dict, mcp_dict)

\* the context render_claude_md hands to the main template; enumeration is
\* the order of fs::read_dir(claude-md/misc)
RenderContext(languages, active_mcp_names, clone_dir, enumeration) ==
    LET claude_md_dir == Child(clone_dir, "claude-md")
        lang_dict == BTreeMapOf(languages)
        mcp_dict == BTreeMapOf(active_mcp_names)
        lang_rules == build_language_rules(languages, claude_md_dir)
        mcp_rules == build_mcp_rules(active_mcp_names, claude_md_dir)
        ctx == MapInsert(MapInsert(MapInsert(MapInsert(EmptyMap,
                   "lang", MapValue(lang_dict)),
                   "mcp", MapValue(mcp_dict)),
                   "lang_rules", StrValue(lang_rules.v)),
                   "mcp_rules", StrValue(mcp_rules.v))
        misc_dir == Child(claude_md_dir, "misc")
        entries == sort_by_file_name(FilterSeq(enumeration,
                       {n \in read_dir(misc_dir) : is_file(Child(misc_dir, n))}))
    IN IF ~lang_rules.ok THEN lang_rules
       ELSE IF ~mcp_rules.ok THEN mcp_rules
       ELSE IF ~is_dir(misc_dir) THEN Ok(ctx)
       ELSE InsertFragments(ctx, entries, misc_dir, lang_dict, mcp_dict)

\* the main templates of the model
TemplateRules == <<"{{ lang_rules }}{{ mcp_rules }}">>
TemplateLoop == <<"{% for l in lang %}{{ l }}{% endfor %}">>
TemplateMisc == <<"{{ general }}{{ tips }}">>

\* {{ name }}: the string under name, nothing for an undefined variable
Printed(ctx, name) == IF MapHas(ctx, name) THEN MapGet(ctx, name).v ELSE <<>>

\* env.render_str(&template_content, Value::Object(ctx)) on the main
\* templates of the model; the loop prints the keys of the map lang in the
\* map's iteration order
render_main(template, ctx) ==
    IF template = TemplateRules THEN Ok(Printed(ctx, "lang_rules") \o Printed(ctx, "mcp_rules"))
    ELSE IF template = TemplateLoop THEN Ok(MapKeys(MapGet(ctx, "lang").v))
    ELSE IF template = TemplateMisc THEN Ok(Printed(ctx, "general") \o Printed(ctx, "tips"))
    ELSE Err(<<"Failed to render CLAUDE.md.jinja">>)

\* render_claude_md(languages, active_mcp_names, clone_dir) with the
\* fragments of claude-md/misc
render_claude_md_misc(languages, active_mcp_names, clone_dir, enumeration) ==
    LET template == Child(clone_dir, "CLAUDE.md.jinja")
        ctx == RenderContext(languages, active_mcp_names, clone_dir, enumeration)
    IN IF ~is_file(template) THEN Err(<<"Failed to read", "CLAUDE.md.jinja">>)
       ELSE IF ~ctx.ok THEN ctx
       ELSE render_main(template.c, ctx.v)

\* the entries a claude-md/misc directory of the model may hold
MiscEntries ==
    { <<"general.md", File(<<" ", "g", NL>>)>>, <<"lang-rules.md", File(<<"x">>)>>,
      <<"lang_rules.md", File(<<"y">>)>>, <<"mcp.md", File(<<"m">>)>>,
      <<"notes", File(<<"n">>)>>, <<"tips.md.jinja", File(FragmentIfTypescript)>>,
      <<"tips.md.jinja", File(FragmentBroken)>>, <<"drafts", EmptyDir>> }

\* the claude-md/misc directories with at most MaxMisc entries
MiscDirs ==
    LET names == {e[1] : e \in MiscEntries}
    IN {Dir(f) : f \in UNION {
            {g \in [S -> {e[2] : e \in MiscEntries}] :
                \A n \in S : <<n, g[n]>> \in MiscEntries} :
            S \in {T \in SUBSET names : Cardinality(T) <= MaxMisc}}}

\* the template trees: CLAUDE.md.jinja, lang-rules, mcp-rules and, unless
\* it has no entry, misc
RenderTrees ==
    { Dir("CLAUDE.md.jinja" :> File(t)
          @@ "claude-md" :> DirOfPresent(
                 "lang-rules" :> DirOfPresent("typescript.md" :> File(<<"t", "s", NL>>)
                                              @@ "python.md" :> y)
                 @@ "mcp-rules" :> Dir("context7.md" :> File(<<"c", "7">>))
                 @@ "misc" :> (IF m = EmptyDir THEN NoneN ELSE m))) :
        t \in {TemplateRules, TemplateLoop, TemplateMisc},
        y \in {NoneN, File(<<"p", "y">>)},
        m \in MiscDirs }

RenderInit ==
    /\ cli \in {[languages |-> l, hooks |-> <<>>, mcp |-> m, clarg |-> None, force |-> FALSE] :
                  l \in SeqsUpTo({"typescript", "python"}, MaxLangs + 1),
                  m \in {<<>>, <<"context7">>}}
    /\ tree \in RenderTrees
    /\ cwd = EmptyDir
    /\ cwd0 = EmptyDir
    /\ pc = "x_call"
    /\ loc = NoLocals
    /\ stdin = <<>>
    /\ result = Running
    /\ log = <<>>
    /\ ret = <<>>

\* render_claude_md(&resolved_languages, &active_mcps, clone_dir); the
\* context handed to the main template is kept next to the result
RenderCall ==
    /\ pc = "x_call"
    /\ \E enumeration \in Perms(read_dir(At(tree, <<"claude-md", "misc">>))) :
        LET ctx == RenderContext(cli.languages, cli.mcp, tree, enumeration)
            r == render_claude_md_misc(cli.languages, cli.mcp, tree, enumeration)
        IN ret' = r @@ [ctx |-> IF ctx.ok THEN ctx.v ELSE EmptyMap]
    /\ pc' = "x_rendered"
    /\ UNCHANGED <<cli, tree, cwd, cwd0, loc, stdin, result, log>>

SpecRender == RenderInit /\ [][RenderCall]_vars

\* the variable names the fragments of claude-md/misc are inserted under
MiscVarNames ==
    LET misc_dir == At(tree, <<"claude-md", "misc">>)
    IN {misc_var_name(misc_tag_name(misc_base(n))) :
            n \in {m \in read_dir(misc_dir) : is_file(Child(misc_dir, m))}}

\* C28: the values of lang, mcp, lang_rules and mcp_rules in the context of
\* the main template are the presence maps and the rule texts computed from
\* the languages and the active MCP names, whatever claude-md/misc holds.
C28_BuiltinKeysNotShadowed ==
    (pc = "x_rendered" /\ ret.ok)
        => /\ MapGet(ret.ctx, "lang") = MapValue(BTreeMapOf(cli.languages))
           /\ MapGet(ret.ctx, "mcp") = MapValue(BTreeMapOf(cli.mcp))
           /\ MapGet(ret.ctx, "lang_rules")
                 = StrValue(build_language_rules(cli.languages, Child(tree, "claude-md")).v)
           /\ MapGet(ret.ctx, "mcp_rules")
                 = StrValue(build_mcp_rules(cli.mcp, Child(tree, "claude-md")).v)

\* the position of a key in the ascending order
KeyRank(key) == CHOOSE i \in DOMAIN SortedKeys : SortedKeys[i] = key

\* the opening tags of the language blocks of a rule text, in text order
BlockTags(text) == FilterSeq(text, {"<" \o l \o "-rules>" : l \in {"typescript", "python"}})

\* the languages of the list that have a rule file, in caller order
LanguagesWithRules ==
    FilterSeq(cli.languages,
              {l \in {"typescript", "python"} :
                  exists(At(tree, <<"claude-md", "lang-rules", l \o ".md">>))})

\* C29: the presence map lang has one key per distinct language, each true,
\* in ascending key order whatever the caller order and the duplicates, and
\* a template looping over lang prints the keys in that order; lang_rules
\* has one block per occurrence in the list, in caller order (where no misc
\* fragment is inserted under lang or lang_rules).
C29_PresenceMapVersusRuleList ==
    (pc = "x_rendered" /\ ret.ok /\ MiscVarNames \cap {"lang", "lang_rules"} = {})
        => LET lang == MapGet(ret.ctx, "lang").v
               keys == MapKeys(lang)
               tags == BlockTags(MapGet(ret.ctx, "lang_rules").v)
           IN /\ Range(keys) = Range(cli.languages)
              /\ Len(keys) = Cardinality(Range(cli.languages))
              /\ \A i \in DOMAIN lang : lang[i][2] = TRUE
              /\ \A i, j \in DOMAIN keys : i < j => KeyRank(keys[i]) < KeyRank(keys[j])
              /\ Child(tree, "CLAUDE.md.jinja").c = TemplateLoop => ret.v = keys
              /\ tags = [i \in DOMAIN LanguagesWithRules |->
                            "<" \o LanguagesWithRules[i] \o "-rules>"]

C29_Witness ==
    /\ pc = "x_rendered" /\ ret.ok
    /\ cli.languages = <<"typescript", "python", "typescript">>
    /\ Child(tree, "CLAUDE.md.jinja").c = TemplateLoop
    /\ ret.v = <<"python", "typescript">>
    /\ BlockTags(MapGet(ret.ctx, "lang_rules").v)
          = <<"<typescript-rules>", "<python-rules>", "<typescript-rules>">>

====
